---------------------------- MODULE Spec2Model ----------------------------
(* CSS DevTools Sync: the local agent (server/server.js) that patches CSS  *)
(* files on disk, and the selector-variation generator of the extension's  *)
(* background script (extension/background.js).                            *)
(*                                                                         *)
(* Strings are sequences of one-character strings, so that offsets,        *)
(* substring, trim, split and the regular expressions of the source are    *)
(* computed character by character.  Offsets are 0-based as in JavaScript. *)
EXTENDS Integers, Sequences, FiniteSets, TLC

\* An optional value (null or undefined in the source) is a sequence of no
\* or one element; an absent string is the empty string, which the source's
\* truthiness tests treat the same way.
Some(x) == <<x>>
None    == <<>>

Min(S) == CHOOSE x \in S : \A y \in S : x <= y
Max(S) == CHOOSE x \in S : \A y \in S : x >= y

-----------------------------------------------------------------------------
(* String primitives of JavaScript used by the source.                     *)

\* \s of a JavaScript regular expression, and what String.prototype.trim strips
\* (restricted to the white space that occurs in the modelled inputs).
IsSpace(c) == c \in {" ", "\n", "\t"}

\* String.prototype.substring(a, b) for 0 <= a, b
Substring(s, a, b) ==
    LET lo == Min({Min({a, b}), Len(s)})
        hi == Min({Max({a, b}), Len(s)})
    IN  SubSeq(s, lo + 1, hi)

\* String.prototype.substring(a)
SubstringFrom(s, a) == Substring(s, a, Len(s))

\* String.prototype.trim()
RECURSIVE TrimStart(_)
TrimStart(s) == IF s # <<>> /\ IsSpace(Head(s)) THEN TrimStart(Tail(s)) ELSE s

RECURSIVE TrimEnd(_)
TrimEnd(s) ==
    IF s # <<>> /\ IsSpace(s[Len(s)]) THEN TrimEnd(SubSeq(s, 1, Len(s) - 1)) ELSE s

Trim(s) == TrimEnd(TrimStart(s))

\* String.prototype.startsWith(p)
StartsWith(s, p) == Len(p) <= Len(s) /\ SubSeq(s, 1, Len(p)) = p

\* String.prototype.endsWith(p)
EndsWith(s, p) == Len(p) <= Len(s) /\ SubSeq(s, Len(s) - Len(p) + 1, Len(s)) = p

\* String.prototype.includes(t)
Includes(s, t) ==
    \E i \in 0..(Len(s) - Len(t)) : SubSeq(s, i + 1, i + Len(t)) = t

\* s.replace(/\s+/g, ' '): every maximal run of white space becomes one space
RECURSIVE CollapseSpaces(_)
CollapseSpaces(s) ==
    IF s = <<>> THEN <<>>
    ELSE IF IsSpace(Head(s))
         THEN LET rest == Tail(s)
                  nonsp == {i \in 1..Len(rest) : ~IsSpace(rest[i])}
                  next == IF nonsp = {} THEN <<>>
                          ELSE SubSeq(rest, Min(nonsp), Len(rest))
              IN  <<" ">> \o CollapseSpaces(next)
         ELSE <<Head(s)>> \o CollapseSpaces(Tail(s))

\* s.split(/[\s>+~]/).filter(t => t): the non-empty pieces between separators
IsCombinator(c) == IsSpace(c) \/ c \in {">", "+", "~"}

RECURSIVE SplitTokens(_)
SplitTokens(s) ==
    LET seps == {i \in 1..Len(s) : IsCombinator(s[i])}
    IN  IF s = <<>> THEN <<>>
        ELSE IF seps = {} THEN <<s>>
        ELSE LET k == Min(seps)
                 rest == SplitTokens(SubSeq(s, k + 1, Len(s)))
             IN  IF k = 1 THEN rest ELSE <<SubSeq(s, 1, k - 1)>> \o rest

\* Array.prototype.includes
SeqIncludes(seq, x) == \E i \in 1..Len(seq) : seq[i] = x

\* Array.prototype.join(sep)
RECURSIVE Join(_, _)
Join(parts, sep) ==
    IF parts = <<>> THEN <<>>
    ELSE IF Len(parts) = 1 THEN parts[1]
    ELSE parts[1] \o sep \o Join(Tail(parts), sep)

-----------------------------------------------------------------------------
(* JavaScript objects used as ordered maps (string keys keep insertion     *)
(* order): a sequence of <<key, value>> pairs with distinct keys.          *)

ObjHas(obj, k) == \E i \in 1..Len(obj) : obj[i][1] = k

ObjGet(obj, k) == obj[CHOOSE i \in 1..Len(obj) : obj[i][1] = k][2]

\* obj[k] = v: an existing key keeps its place, a new key goes last
ObjSet(obj, k, v) ==
    IF ObjHas(obj, k)
    THEN [i \in 1..Len(obj) |-> IF obj[i][1] = k THEN <<k, v>> ELSE obj[i]]
    ELSE Append(obj, <<k, v>>)

\* Object.keys(obj)
ObjKeys(obj) == [i \in 1..Len(obj) |-> obj[i][1]]

-----------------------------------------------------------------------------
(* server.js: CSSSync.parseCSS                                             *)

\* the first 1-based position >= from of s that holds a character of `set`,
\* 0 when there is none: how a negated character class [^...]+ stops
RECURSIVE IndexOfAny(_, _, _)
IndexOfAny(s, set, from) ==
    IF from > Len(s) THEN 0
    ELSE IF s[from] \in set THEN from
    ELSE IndexOfAny(s, set, from + 1)

\* propRegex = /([^:;]+):([^;]+)/g applied from 1-based position `from`:
\* the leftmost position where a name, a colon and a non-empty value match.
RECURSIVE PropMatchStart(_, _)
PropMatchStart(d, from) ==
    IF from > Len(d) THEN 0
    ELSE LET stop == IndexOfAny(d, {":", ";"}, from)
         IN  IF stop = 0 THEN 0
             ELSE IF /\ stop > from
                     /\ d[stop] = ":"
                     /\ stop + 1 <= Len(d)
                     /\ d[stop + 1] # ";"
                  THEN from
                  ELSE PropMatchStart(d, from + 1)

RECURSIVE ParseDeclarations(_, _, _)
ParseDeclarations(d, from, properties) ==
    LET i == PropMatchStart(d, from)
    IN  IF i = 0 THEN properties
        ELSE LET colon == IndexOfAny(d, {":"}, i)
                 semi  == IndexOfAny(d, {";"}, colon + 1)
                 stop  == IF semi = 0 THEN Len(d) + 1 ELSE semi
                 property == Trim(SubSeq(d, i, colon - 1))
                 value    == Trim(SubSeq(d, colon + 1, stop - 1))
             IN  ParseDeclarations(d, stop, ObjSet(properties, property, value))

\* ruleRegex = /([^{]+)\{([^}]+)\}/g applied from 1-based position `from`:
\* the leftmost position where a selector, "{", a non-empty body and "}" match.
RECURSIVE RuleMatchStart(_, _)
RuleMatchStart(content, from) ==
    IF from > Len(content) THEN 0
    ELSE LET open == IndexOfAny(content, {"{"}, from)
         IN  IF open = 0 THEN 0
             ELSE IF /\ open > from
                     /\ open + 1 <= Len(content)
                     /\ content[open + 1] # "}"
                     /\ IndexOfAny(content, {"}"}, open + 2) # 0
                  THEN from
                  ELSE RuleMatchStart(content, from + 1)

RECURSIVE ParseRules(_, _)
ParseRules(content, from) ==
    LET i == RuleMatchStart(content, from)
    IN  IF i = 0 THEN <<>>
        ELSE LET open  == IndexOfAny(content, {"{"}, i)
                 close == IndexOfAny(content, {"}"}, open + 2)
                 selector     == Trim(SubSeq(content, i, open - 1))
                 declarations == Trim(SubSeq(content, open + 1, close - 1))
                 rule == [selector   |-> selector,
                          properties |-> ParseDeclarations(declarations, 1, <<>>),
                          startIndex |-> i - 1,
                          endIndex   |-> close]
             IN  <<rule>> \o ParseRules(content, close + 1)

parseCSS(content) == ParseRules(content, 1)

-----------------------------------------------------------------------------
(* server.js: CSSSync.calculateMatchScore                                  *)

\* a faulty variant: the score is returned as it stands, below zero or not
calculateMatchScoreUnclamped(cssSelector, targetSelector, classList) ==
    IF cssSelector = targetSelector THEN 100
    ELSE
    LET cleanCSS    == Trim(CollapseSpaces(cssSelector))
        cleanTarget == Trim(CollapseSpaces(targetSelector))
        classHits   == {i \in 1..Len(classList) :
                            Includes(cleanCSS, <<".">> \o classList[i])}
        cssTokens    == SplitTokens(cleanCSS)
        targetTokens == SplitTokens(cleanTarget)
        tokenHits   == {i \in 1..Len(targetTokens) :
                            SeqIncludes(cssTokens, targetTokens[i])}
        penalty     == IF Len(cleanCSS) < 3 THEN 10 ELSE 0
    IN  30 * Cardinality(classHits) + 20 * Cardinality(tokenHits) - penalty

calculateMatchScore(cssSelector, targetSelector, classList) ==
    IF cssSelector = targetSelector THEN 100
    ELSE
    LET cleanCSS    == Trim(CollapseSpaces(cssSelector))
        cleanTarget == Trim(CollapseSpaces(targetSelector))
        classHits   == {i \in 1..Len(classList) :
                            Includes(cleanCSS, <<".">> \o classList[i])}
        cssTokens    == SplitTokens(cleanCSS)
        targetTokens == SplitTokens(cleanTarget)
        tokenHits   == {i \in 1..Len(targetTokens) :
                            SeqIncludes(cssTokens, targetTokens[i])}
        penalty     == IF Len(cleanCSS) < 3 THEN 10 ELSE 0
        score       == 30 * Cardinality(classHits)
                       + 20 * Cardinality(tokenHits) - penalty
    IN  Max({0, score})

-----------------------------------------------------------------------------
(* Paths.  path.resolve on the modelled inputs: absolute paths without     *)
(* "." or ".." segments, possibly carrying trailing slashes, and relative  *)
(* paths, which are resolved against the working directory.                *)

Cwd == <<"/", "w">>

RECURSIVE StripTrailingSlashes(_)
StripTrailingSlashes(p) ==
    IF Len(p) > 1 /\ p[Len(p)] = "/"
    THEN StripTrailingSlashes(SubSeq(p, 1, Len(p) - 1))
    ELSE p

PathResolve(p) ==
    IF p # <<>> /\ p[1] = "/" THEN StripTrailingSlashes(p)
    ELSE IF p = <<>> THEN Cwd
    ELSE StripTrailingSlashes(Cwd \o <<"/">> \o p)

\* path.join(dir, name) for a normalized dir and a single name
PathJoin(dir, name) == dir \o <<"/">> \o name

\* the directory part and the last component of an absolute path
LastSlash(p) == Max({i \in 1..Len(p) : p[i] = "/"})
Dirname(p)  == IF LastSlash(p) = 1 THEN <<"/">> ELSE SubSeq(p, 1, LastSlash(p) - 1)
Basename(p) == SubSeq(p, LastSlash(p) + 1, Len(p))

-----------------------------------------------------------------------------
(* this.cssFiles: a Map, iterated in insertion order.  A sequence of       *)
(* [path, content, parsed] with distinct paths.                            *)

MapHas(files, path) == \E i \in 1..Len(files) : files[i].path = path

MapGet(files, path) == files[CHOOSE i \in 1..Len(files) : files[i].path = path]

\* Map.prototype.set: an existing key keeps its place, a new key goes last
MapSet(files, path, content, parsed) ==
    LET entry == [path |-> path, content |-> content, parsed |-> parsed]
    IN  IF MapHas(files, path)
        THEN [i \in 1..Len(files) |->
                 IF files[i].path = path THEN entry ELSE files[i]]
        ELSE Append(files, entry)

-----------------------------------------------------------------------------
(* server.js: CSSSync.findBestMatch; the result is None or Some(match)     *)

\* the (file, rule, variation) triples in the order the three loops visit them
RECURSIVE RuleCandidates(_, _, _, _)
RuleCandidates(file, r, v, selectorVariations) ==
    IF r > Len(file.parsed) THEN <<>>
    ELSE IF v > Len(selectorVariations)
         THEN RuleCandidates(file, r + 1, 1, selectorVariations)
         ELSE <<[filePath |-> file.path, rule |-> file.parsed[r],
                 matchedSelector |-> selectorVariations[v].selector]>>
              \o RuleCandidates(file, r, v + 1, selectorVariations)

\* faulty variant of ScanCandidates: the target-path filter is left out
RECURSIVE ScanCandidatesAnyPath(_, _, _, _)
ScanCandidatesAnyPath(files, f, resolvedTargetPath, selectorVariations) ==
    IF f > Len(files) THEN <<>>
    ELSE RuleCandidates(files[f], 1, 1, selectorVariations)
         \o ScanCandidatesAnyPath(files, f + 1, resolvedTargetPath, selectorVariations)

RECURSIVE ScanCandidates(_, _, _, _)
ScanCandidates(files, f, resolvedTargetPath, selectorVariations) ==
    IF f > Len(files) THEN <<>>
    ELSE (IF StartsWith(files[f].path, resolvedTargetPath)
          THEN RuleCandidates(files[f], 1, 1, selectorVariations)
          ELSE <<>>)
         \o ScanCandidates(files, f + 1, resolvedTargetPath, selectorVariations)

\* faulty variant of BestOf: `score >= bestScore`, so the last of equals wins
RECURSIVE BestOfLast(_, _, _, _, _)
BestOfLast(cands, k, classList, bestMatch, bestScore) ==
    IF k > Len(cands) THEN [bestMatch |-> bestMatch, bestScore |-> bestScore]
    ELSE LET score == calculateMatchScore(cands[k].rule.selector,
                                          cands[k].matchedSelector,
                                          classList)
         IN  IF score >= bestScore /\ score > 0
             THEN BestOfLast(cands, k + 1, classList,
                             <<[filePath        |-> cands[k].filePath,
                                rule            |-> cands[k].rule,
                                matchedSelector |-> cands[k].matchedSelector,
                                score           |-> score]>>, score)
             ELSE BestOfLast(cands, k + 1, classList, bestMatch, bestScore)

\* the running best: replaced only by a strictly greater score
RECURSIVE BestOf(_, _, _, _, _)
BestOf(cands, k, classList, bestMatch, bestScore) ==
    IF k > Len(cands) THEN [bestMatch |-> bestMatch, bestScore |-> bestScore]
    ELSE LET score == calculateMatchScore(cands[k].rule.selector,
                                          cands[k].matchedSelector,
                                          classList)
         IN  IF score > bestScore
             THEN BestOf(cands, k + 1, classList,
                         <<[filePath        |-> cands[k].filePath,
                            rule            |-> cands[k].rule,
                            matchedSelector |-> cands[k].matchedSelector,
                            score           |-> score]>>, score)
             ELSE BestOf(cands, k + 1, classList, bestMatch, bestScore)

MatchThreshold == 50

\* faulty variant of findBestMatch: the threshold test is `>=`
findBestMatchAtLeast(selectorVariations, classList, targetPath, files) ==
    LET cands == ScanCandidates(files, 1, PathResolve(targetPath), selectorVariations)
        best  == BestOf(cands, 1, classList, <<>>, 0)
    IN  IF best.bestScore >= MatchThreshold THEN best.bestMatch ELSE <<>>

findBestMatch(selectorVariations, classList, targetPath, files) ==
    LET cands == ScanCandidates(files, 1, PathResolve(targetPath), selectorVariations)
        best  == BestOf(cands, 1, classList, <<>>, 0)
    IN  IF best.bestScore > MatchThreshold THEN best.bestMatch ELSE <<>>

-----------------------------------------------------------------------------
(* server.js: the patcher's text construction                              *)

\* String(x) of a plain object
ObjectObject == <<"[","o","b","j","e","c","t"," ","O","b","j","e","c","t","]">>

\* A change is [type, value, from, to]: type "value" is a bare new value,
\* type "object" a {from, to} pair, type "null" a JSON null.
ValueChange(v)     == [type |-> "value",  value |-> v,    from |-> <<>>, to |-> <<>>]
FromTo(from, to)   == [type |-> "object", value |-> <<>>, from |-> from, to |-> to]
NullChange         == [type |-> "null",   value |-> <<>>, from |-> <<>>, to |-> <<>>]

\* `typeof change === 'object' && change.to` reads a field of null: TypeError
ChangeThrows(change) == change.type = "null"

\* the text `${value}` written for a change: `to` when the change is an object
\* with a truthy `to`, else the change itself converted to a string
ChangeText(change) ==
    IF change.type = "object"
    THEN IF change.to # <<>> THEN change.to ELSE ObjectObject
    ELSE change.value

AnyChangeThrows(changes) == \E i \in 1..Len(changes) : ChangeThrows(changes[i][2])

\* faulty variant of ApplyChanges: the rule's own properties are not carried over
ApplyChangesFresh(properties, changes, k) ==
    [i \in 1..Len(changes) |-> <<changes[i][1], ChangeText(changes[i][2])>>]

\* the loop `newProperties[property] = ...` over Object.entries(changes)
RECURSIVE ApplyChanges(_, _, _)
ApplyChanges(properties, changes, k) ==
    IF k > Len(changes) THEN properties
    ELSE ApplyChanges(ObjSet(properties, changes[k][1], ChangeText(changes[k][2])),
                      changes, k + 1)

\* faulty variant of DeclarationLines: the entries are joined by "\n" alone
DeclarationLinesNoSemicolon(properties) ==
    Join([i \in 1..Len(properties) |->
             <<" ", " ">> \o properties[i][1] \o <<":", " ">> \o properties[i][2]],
         <<"\n">>)

\* `  ${prop}: ${value}` for every entry, joined by ";\n"
DeclarationLines(properties) ==
    Join([i \in 1..Len(properties) |->
             <<" ", " ">> \o properties[i][1] \o <<":", " ">> \o properties[i][2]],
         <<";", "\n">>)

\* `${selector} {\n${declarations};\n}`
RuleText(selector, declarations) ==
    selector \o <<" ", "{", "\n">> \o declarations \o <<";", "\n", "}">>

\* beforeRule + newRule + afterRule
Splice(content, rule, newRule) ==
    Substring(content, 0, rule.startIndex) \o newRule
        \o SubstringFrom(content, rule.endIndex)

\* createNewRule: `  ${prop}: ${value}` built from the changes alone
ChangeLines(changes) ==
    Join([i \in 1..Len(changes) |->
             <<" ", " ">> \o changes[i][1] \o <<":", " ">> \o ChangeText(changes[i][2])],
         <<";", "\n">>)

MainCssName   == <<"m","a","i","n",".","c","s","s">>
MainCssHeader == <<"/","*"," ","C","S","S"," ","D","e","v","T","o","o","l","s"," ",
                   "S","y","n","c"," ","-"," ","A","u","t","o","-","g","e","n","e",
                   "r","a","t","e","d"," ","*","/","\n">>

\* findTargetFile's loop: the first file under the target path that is
\* strictly larger than every file before it; the empty path when there is none
RECURSIVE LargestFile(_, _, _, _, _)
LargestFile(files, f, resolvedTargetPath, targetFile, maxSize) ==
    IF f > Len(files) THEN targetFile
    ELSE IF /\ StartsWith(files[f].path, resolvedTargetPath)
            /\ Len(files[f].content) > maxSize
         THEN LargestFile(files, f + 1, resolvedTargetPath,
                          files[f].path, Len(files[f].content))
         ELSE LargestFile(files, f + 1, resolvedTargetPath, targetFile, maxSize)

-----------------------------------------------------------------------------
(* background.js: CSSChangeProcessor.generateSelectorVariations            *)

\* \w of a JavaScript regular expression
WordChars ==
    {"a","b","c","d","e","f","g","h","i","j","k","l","m","n","o","p","q","r","s",
     "t","u","v","w","x","y","z","A","B","C","D","E","F","G","H","I","J","K","L",
     "M","N","O","P","Q","R","S","T","U","V","W","X","Y","Z","0","1","2","3","4",
     "5","6","7","8","9","_"}

\* selector.match(/^(\w+)/): the leading run of word characters, <<>> if none
LeadingWord(selector) ==
    LET stops == {i \in 1..Len(selector) : selector[i] \notin WordChars}
    IN  IF stops = {} THEN selector ELSE SubSeq(selector, 1, Min(stops) - 1)

\* variations.sort((a, b) => b.priority - a.priority): stable, higher first
RECURSIVE SortByPriority(_, _)
SortByPriority(sorted, rest) ==
    IF rest = <<>> THEN sorted
    ELSE LET x == Head(rest)
             before == {i \in 1..Len(sorted) : sorted[i].priority >= x.priority}
             k == IF before = {} THEN 0 ELSE Max(before)
         IN  SortByPriority(SubSeq(sorted, 1, k) \o <<x>>
                                \o SubSeq(sorted, k + 1, Len(sorted)),
                            Tail(rest))

generateSelectorVariations(selector, classList) ==
    LET original == <<[selector |-> selector, priority |-> 1, type |-> "original"]>>
        individual ==
            [i \in 1..Len(classList) |->
                [selector |-> <<".">> \o classList[i], priority |-> 10 - (i - 1),
                 type |-> "individual_class"]]
        combined ==
            IF Len(classList) > 0
            THEN <<[selector |-> <<".">> \o Join(classList, <<".">>), priority |-> 5,
                    type |-> "combined_classes"]>>
            ELSE <<>>
        element == LeadingWord(selector)
        elementClass ==
            IF element # <<>> /\ Len(classList) > 0
            THEN [i \in 1..Len(classList) |->
                     [selector |-> element \o <<".">> \o classList[i],
                      priority |-> 8 - (i - 1), type |-> "element_class"]]
            ELSE <<>>
    IN  SortByPriority(<<>>, original \o individual \o combined \o elementClass)

\* the later version of the same method: the combined variation is made only
\* for more than one class
generateSelectorVariationsFixed(selector, classList) ==
    LET original == <<[selector |-> selector, priority |-> 1, type |-> "original"]>>
        individual ==
            [i \in 1..Len(classList) |->
                [selector |-> <<".">> \o classList[i], priority |-> 10 - (i - 1),
                 type |-> "individual_class"]]
        combined ==
            IF Len(classList) > 1
            THEN <<[selector |-> <<".">> \o Join(classList, <<".">>), priority |-> 5,
                    type |-> "combined_classes"]>>
            ELSE <<>>
        element == LeadingWord(selector)
        elementClass ==
            IF element # <<>> /\ Len(classList) > 0
            THEN [i \in 1..Len(classList) |->
                     [selector |-> element \o <<".">> \o classList[i],
                      priority |-> 8 - (i - 1), type |-> "element_class"]]
            ELSE <<>>
    IN  SortByPriority(<<>>, original \o individual \o combined \o elementClass)

-----------------------------------------------------------------------------
(* The modelled world: two project roots whose names share a prefix, the   *)
(* CSS files below them, and the request bodies sent to the agent.         *)

RootP   == <<"/","p">>
RootPQ  == <<"/","p","q">>
FileA   == <<"/","p","/","a",".","c","s","s">>
FileB   == <<"/","p","/","b",".","c","s","s">>
FileC   == <<"/","p","q","/","c",".","c","s","s">>

\* a third root with subdirectories: /r, /r/s, /r/dist, /r/s/dist, /r/e
RootR     == <<"/","r">>
DirRS     == <<"/","r","/","s">>
DirRDist  == <<"/","r","/","d","i","s","t">>
DirRSDist == <<"/","r","/","s","/","d","i","s","t">>
DirRE     == <<"/","r","/","e">>

\* the directories that exist (none is created or removed)
Dirs == {RootP, RootPQ, RootR, DirRS, DirRDist, DirRSDist, DirRE}

\* ".a{c:r}\n.b{c:r}\n.e{m:0}"
ContentA == <<".","a","{","c",":","r","}","\n",".","b","{","c",":","r","}","\n",
              ".","e","{","m",":","0","}">>
\* ".c{m:0}"
ContentB == <<".","c","{","m",":","0","}">>
\* "d .b{c:r}"
ContentC == <<"d"," ",".","b","{","c",":","r","}">>

DiskOf(paths) ==
    [f \in paths |-> IF f = FileA THEN ContentA
                     ELSE IF f = FileB THEN ContentB ELSE ContentC]

InitialDisks == {DiskOf({FileA, FileB}), DiskOf({FileA, FileC})}

DeletedSentinel == <<"(","d","e","l","e","t","e","d",")">>

\* background.js: enhanceChangeData, for a detected change
\* {selector, classList, changes, domain} and the configured target path
enhanceChangeData(selector, classList, changes, domain, targetPath) ==
    [selector           |-> selector,
     classList          |-> classList,
     changes            |-> Some(changes),
     domain             |-> domain,
     selectorVariations |-> Some(generateSelectorVariations(selector, classList)),
     targetPath         |-> targetPath]

\* .b: color red -> green, under /p
BodyUpdateB ==
    enhanceChangeData(<<".","b">>, << <<"b">> >>,
                      << <<<<"c">>, FromTo(<<"r">>, <<"g">>)>> >>, <<>>, RootP)
\* .a: color deleted, under /p
BodyDeleteA ==
    enhanceChangeData(<<".","a">>, << <<"a">> >>,
                      << <<<<"c">>, FromTo(<<"r">>, DeletedSentinel)>> >>, <<>>, RootP)
\* .b: margin 0 added, under /pq/ (no rule of /pq scores above the threshold)
BodyCreateB ==
    enhanceChangeData(<<".","b">>, << <<"b">> >>,
                      << <<<<"m">>, ValueChange(<<"0">>)>> >>, <<>>,
                      RootPQ \o <<"/">>)

ApplyBodies == {BodyUpdateB, BodyDeleteA, BodyCreateB}

\* a root that exists, and one that does not
ConfigBodies ==
    {[projectPath |-> RootP, domainMappings |-> <<>>, activePath |-> <<>>],
     [projectPath |-> <<"/","x">>, domainMappings |-> <<>>, activePath |-> <<>>]}

-----------------------------------------------------------------------------
(* State                                                                   *)

MaxRequests == 2        \* requests the agent receives
MaxFaults   == 1        \* file reads and writes that fail

\* the requests being handled at one time: up to two handlers overlap
Req == {1, 2}

VARIABLES
    disk,            \* the CSS files on disk: path -> content
    cssFiles,        \* this.cssFiles
    projectPath,     \* this.projectPath ("" while unset)
    domainMappings,  \* this.domainMappings: <<domain, path>> pairs
    req,             \* per request: where its handler stands, and its locals
    faults,          \* number of failed file operations so far
    received,        \* number of requests received so far
    call,            \* the arguments of a single call of findBestMatch
    ret,             \* None, or Some(what that call returned)
    processor        \* the extension's CSSChangeProcessor and its queue workers

vars == <<disk, cssFiles, projectPath, domainMappings, req, faults, received,
          call, ret, processor>>

\* Behaviours that start with `call` set to KeepHistory record, in the field
\* `index` of a request, the index as its applyCSSChange call (for a
\* configuration or a call of ensureCSSFilesLoaded: the call itself) found
\* it, in the field `after` the kind and the target path of the request
\* that the same handler answered just before, and in the field `found` of a
\* configuration the root and the mappings as it found them.
KeepHistory == <<"history">>

IdleRequest ==
    [pc |-> "idle", kind |-> "none", body |-> None, targetPath |-> <<>>,
     todo |-> <<>>, op |-> "none", file |-> <<>>, base |-> <<>>, content |-> <<>>,
     match |-> None, index |-> <<>>, after |-> <<>>, found |-> <<>>,
     size |-> None, got |-> <<>>, eof |-> FALSE, result |-> None]

\* The processor after its constructor, with no call of processQueue under
\* way.  `version` tells the two versions of processQueue apart; `enqueued`,
\* `shifted` and `sent` keep the changes in the order they were pushed on the
\* queue, in the order they were taken off it and in the order their
\* requests were issued.
IdleProcessor(version) ==
    [version |-> version, changeQueue |-> <<>>, isProcessing |-> FALSE,
     workers |-> <<>>, enqueued |-> <<>>, shifted |-> <<>>, sent |-> <<>>]

Init ==
    /\ disk \in InitialDisks
    /\ cssFiles = <<>>
    /\ projectPath = <<>>
    /\ domainMappings = <<>>
    /\ req = [r \in Req |-> IdleRequest]
    /\ faults = 0
    /\ received = 0
    /\ call = None
    /\ ret = None
    /\ processor = IdleProcessor("first")

-----------------------------------------------------------------------------
(* Results sent back to the client                                         *)

Failure(status, error) ==
    [success |-> FALSE, status |-> status, error |-> error, fullPath |-> <<>>,
     selector |-> <<>>, changes |-> <<>>, created |-> FALSE]

Success(fullPath, selector, changes, created) ==
    [success |-> TRUE, status |-> 200, error |-> "", fullPath |-> fullPath,
     selector |-> selector, changes |-> changes, created |-> created]

\* the handler returns: its locals are gone, the response stays with the client
Respond(q, result) ==
    [IdleRequest EXCEPT !.pc = "done", !.kind = q.kind, !.body = q.body,
                        !.targetPath = q.targetPath, !.index = q.index,
                        !.after = q.after, !.found = q.found,
                        !.result = Some(result)]

-----------------------------------------------------------------------------
(* server.js: the synchronous stretches of applyCSSChange, from one        *)
(* awaited file operation to the next.  `q` is the request, `files` the    *)
(* index as it stands; the result is the request at its next await (pc     *)
(* "write" or "mkwrite") or at its response (pc "done").  fs.writeFile     *)
(* opens the file, which creates or empties it, and writes the text in a   *)
(* later turn of the event loop: pc "write" and "mkwrite" wait for the     *)
(* file to be opened, pc "writing" and "mkwriting" for the text to be      *)
(* written, from the start of the file and over what the file then holds.  *)
(* fs.readFile opens the file and takes its size, reads the text in a      *)
(* later turn and closes the file in a turn after that; it resolves, and   *)
(* loadCSSFile stores the entry, only then: `size` is the size taken (None *)
(* before), `got` the text read so far, `eof` tells that the last read has *)
(* returned and the close is awaited.  A file of known size is read once,  *)
(* up to that size; a file found empty is read until a read returns        *)
(* nothing.  The texts of the model are written and read in one piece.     *)

\* faulty variant of createNewRuleText: the new rule replaces the file's content
createNewRuleTextAlone(q, files, targetFile) ==
    LET b == q.body[1]
    IN  IF \/ AnyChangeThrows(b.changes[1])
           \/ b.selectorVariations[1] = <<>>
           \/ ~MapHas(files, targetFile)
        THEN Respond(q, Failure(200, "TypeError"))
        ELSE [q EXCEPT !.pc = "write", !.op = "create", !.file = targetFile,
                       !.base = MapGet(files, targetFile).content,
                       !.content = RuleText(b.selectorVariations[1][1].selector,
                                            ChangeLines(b.changes[1]))]

\* createNewRule from its `try` to `await fs.writeFile(targetFile, ...)`
createNewRuleText(q, files, targetFile) ==
    LET b == q.body[1]
    IN  IF \/ AnyChangeThrows(b.changes[1])
           \/ b.selectorVariations[1] = <<>>
           \/ ~MapHas(files, targetFile)
        THEN Respond(q, Failure(200, "TypeError"))
        ELSE LET fileData == MapGet(files, targetFile)
                 newRule == <<"\n", "\n">>
                            \o RuleText(b.selectorVariations[1][1].selector,
                                        ChangeLines(b.changes[1]))
             IN  [q EXCEPT !.pc = "write", !.op = "create", !.file = targetFile,
                           !.base = fileData.content,
                           !.content = fileData.content \o newRule]

\* findTargetFile up to `await fs.writeFile(<main.css>)`, else on into createNewRule
createNewRule(q, files) ==
    LET resolvedTargetPath == PathResolve(q.targetPath)
        targetFile == LargestFile(files, 1, resolvedTargetPath, <<>>, 0)
    IN  IF targetFile = <<>>
        THEN [q EXCEPT !.pc = "mkwrite", !.op = "create",
                       !.file = PathJoin(resolvedTargetPath, MainCssName),
                       !.content = MainCssHeader]
        ELSE createNewRuleText(q, files, targetFile)

\* faulty variant of updateExistingRule: a file missing from the index is
\* written with the rule alone
updateExistingRuleUnchecked(q, files, match) ==
    LET b == q.body[1]
        old == IF MapHas(files, match.filePath)
               THEN MapGet(files, match.filePath).content ELSE <<>>
        newRule == RuleText(match.rule.selector,
                            DeclarationLines(ApplyChanges(match.rule.properties,
                                                          b.changes[1], 1)))
    IN  [q EXCEPT !.pc = "write", !.op = "update", !.file = match.filePath,
                  !.base = old,
                  !.content = IF MapHas(files, match.filePath)
                              THEN Splice(old, match.rule, newRule) ELSE newRule]

\* updateExistingRule up to `await fs.writeFile(filePath, updatedContent)`
updateExistingRule(q, files, match) ==
    LET b == q.body[1]
    IN  IF ~MapHas(files, match.filePath)
        THEN Respond(q, Failure(200, "File data not found"))
        ELSE IF AnyChangeThrows(b.changes[1])
        THEN Respond(q, Failure(200, "TypeError"))
        ELSE LET fileData == MapGet(files, match.filePath)
                 newProperties == ApplyChanges(match.rule.properties, b.changes[1], 1)
                 newRule == RuleText(match.rule.selector, DeclarationLines(newProperties))
             IN  [q EXCEPT !.pc = "write", !.op = "update", !.file = match.filePath,
                           !.base = fileData.content,
                           !.content = Splice(fileData.content, match.rule, newRule)]

applyCSSChange(q, files) ==
    LET b == q.body[1]
        q0 == [q EXCEPT !.index = IF call = KeepHistory THEN files ELSE <<>>]
    IN  IF b.selectorVariations = None \/ b.changes = None
        THEN Respond(q0, Failure(200, "Invalid change data"))
        ELSE LET match == findBestMatch(b.selectorVariations[1], b.classList,
                                        q.targetPath, files)
                 q1 == [q0 EXCEPT !.match = match]
             IN  IF match = None THEN createNewRule(q1, files)
                 ELSE updateExistingRule(q1, files, match[1])

\* what follows a finished directory scan: the rest of the request's handler
AfterLoad(q, files) ==
    IF q.kind = "apply" THEN applyCSSChange(q, files)
    ELSE Respond(q, Success(<<>>, <<>>, <<>>, FALSE))

-----------------------------------------------------------------------------
(* The file system as the agent sees it                                    *)

DenyList ==
    {<<"n","o","d","e","_","m","o","d","u","l","e","s">>, <<".","g","i","t">>,
     <<".","v","s","c","o","d","e">>, <<"d","i","s","t">>, <<"b","u","i","l","d">>,
     <<".","n","e","x","t">>, <<"c","o","v","e","r","a","g","e">>}

CssSuffix == <<".","c","s","s">>

\* faulty variant of ScanEntries: no directory is skipped
ScanEntriesAll(dirPath, d) ==
    {f \in DOMAIN d : Dirname(f) = dirPath /\ EndsWith(Basename(f), CssSuffix)}
    \cup {sub \in Dirs : sub # dirPath /\ Dirname(sub) = dirPath}

\* the entries of fs.readdir(dirPath) that scanDirectory acts on: directories
\* not on the deny-list, and files whose name ends in .css
ScanEntries(dirPath, d) ==
    {f \in DOMAIN d : Dirname(f) = dirPath /\ EndsWith(Basename(f), CssSuffix)}
    \cup {sub \in Dirs : /\ sub # dirPath
                         /\ Dirname(sub) = dirPath
                         /\ Basename(sub) \notin DenyList}

\* the orders in which readdir may list a set of entries
Orders(S) ==
    {o \in [1..Cardinality(S) -> S] : \A i, j \in 1..Cardinality(S) : o[i] = o[j] => i = j}

\* faulty variant of loadCSSFile: a cached file keeps its old rules
loadCSSFileKeepRules(files, filePath, content) ==
    MapSet(files, filePath, content,
           IF MapHas(files, filePath) THEN MapGet(files, filePath).parsed
           ELSE parseCSS(content))

\* loadCSSFile after a successful read of `content`
loadCSSFile(files, filePath, content) ==
    MapSet(files, filePath, content, parseCSS(content))

\* faulty variant of hasFilesForPath: only a cached path equal to the resolved
\* path counts
hasFilesForPathExact(files, targetPath) ==
    \E i \in 1..Len(files) : files[i].path = PathResolve(targetPath)

\* ensureCSSFilesLoaded: is some cached path prefixed by the resolved path?
hasFilesForPath(files, targetPath) ==
    \E i \in 1..Len(files) : StartsWith(files[i].path, PathResolve(targetPath))

-----------------------------------------------------------------------------
(* Actions: one per stretch of a handler between two awaited operations    *)

\* a request is taken by the first handler that is free (one that has
\* responded is free again)
IsFree(r) == req[r].pc \in {"idle", "done"}

MayReceive(r) ==
    /\ received < MaxRequests
    /\ IsFree(r)
    /\ \A o \in Req : o < r => ~IsFree(o)
    /\ received' = received + 1

\* history: the index a call finds, and the request handler r answered last
IndexSeen == IF call = KeepHistory THEN cssFiles ELSE <<>>
AnsweredBefore(r) ==
    IF call = KeepHistory /\ req[r].pc = "done"
    THEN <<req[r].kind, req[r].targetPath>> ELSE <<>>
ConfigSeen ==
    IF call = KeepHistory THEN <<projectPath, domainMappings>> ELSE <<>>

\* a faulty variant: the target path of the event goes before the mapping
ReceiveApplyEventFirst(r, body) ==
    /\ MayReceive(r)
    /\ LET mapped == IF body.domain # <<>> /\ ObjHas(domainMappings, body.domain)
                     THEN ObjGet(domainMappings, body.domain) ELSE <<>>
           targetPath == IF body.targetPath # <<>> THEN body.targetPath
                         ELSE IF mapped # <<>> THEN mapped
                         ELSE projectPath
           q == [IdleRequest EXCEPT !.kind = "apply", !.body = Some(body),
                                    !.targetPath = targetPath]
       IN  req' = [req EXCEPT ![r] =
                IF targetPath = <<>>
                THEN Respond(q, Failure(400, "No target path configured for this domain"))
                ELSE IF hasFilesForPath(cssFiles, targetPath)
                THEN applyCSSChange(q, cssFiles)
                ELSE [q EXCEPT !.pc = "load", !.todo = <<PathResolve(targetPath)>>]]
    /\ UNCHANGED <<processor, disk, cssFiles, projectPath, domainMappings, faults, call,
                   ret>>

\* POST /apply-css-change, up to the first awaited file operation
ReceiveApply(r, body) ==
    /\ MayReceive(r)
    /\ LET mapped == IF body.domain # <<>> /\ ObjHas(domainMappings, body.domain)
                     THEN ObjGet(domainMappings, body.domain) ELSE <<>>
           targetPath == IF mapped # <<>> THEN mapped
                         ELSE IF body.targetPath # <<>> THEN body.targetPath
                         ELSE projectPath
           q == [IdleRequest EXCEPT !.kind = "apply", !.body = Some(body),
                                    !.targetPath = targetPath]
       IN  req' = [req EXCEPT ![r] =
                IF targetPath = <<>>
                THEN Respond(q, Failure(400, "No target path configured for this domain"))
                ELSE IF hasFilesForPath(cssFiles, targetPath)
                THEN applyCSSChange(q, cssFiles)
                ELSE [q EXCEPT !.pc = "load", !.todo = <<PathResolve(targetPath)>>]]
    /\ UNCHANGED <<processor, disk, cssFiles, projectPath, domainMappings, faults, call,
                   ret>>

\* faulty variant of ReceiveConfigure: a configuration without mappings keeps
\* the mappings of the configuration before it
ReceiveConfigureKeep(r, cfg) ==
    /\ MayReceive(r)
    /\ projectPath' = IF cfg.projectPath # <<>> THEN PathResolve(cfg.projectPath)
                      ELSE projectPath
    /\ domainMappings' = IF cfg.domainMappings # <<>> THEN cfg.domainMappings
                         ELSE domainMappings
    /\ LET targetPath == IF cfg.activePath # <<>> THEN cfg.activePath
                         ELSE cfg.projectPath
           q == [IdleRequest EXCEPT !.kind = "config", !.body = Some(cfg),
                                    !.targetPath = targetPath,
                                    !.index = IndexSeen, !.after = AnsweredBefore(r),
                                    !.found = ConfigSeen]
       IN  req' = [req EXCEPT ![r] =
                IF targetPath = <<>>
                THEN Respond(q, Success(<<>>, <<>>, <<>>, FALSE))
                ELSE [q EXCEPT !.pc = "load", !.todo = <<PathResolve(targetPath)>>]]
    /\ UNCHANGED <<processor, disk, cssFiles, faults, call, ret>>

\* POST /set-project-configuration, up to the first awaited file operation
ReceiveConfigure(r, cfg) ==
    /\ MayReceive(r)
    /\ projectPath' = IF cfg.projectPath # <<>> THEN PathResolve(cfg.projectPath)
                      ELSE projectPath
    /\ domainMappings' = cfg.domainMappings
    /\ LET targetPath == IF cfg.activePath # <<>> THEN cfg.activePath
                         ELSE cfg.projectPath
           q == [IdleRequest EXCEPT !.kind = "config", !.body = Some(cfg),
                                    !.targetPath = targetPath,
                                    !.index = IndexSeen, !.after = AnsweredBefore(r),
                                    !.found = ConfigSeen]
       IN  req' = [req EXCEPT ![r] =
                IF targetPath = <<>>
                THEN Respond(q, Success(<<>>, <<>>, <<>>, FALSE))
                ELSE [q EXCEPT !.pc = "load", !.todo = <<PathResolve(targetPath)>>]]
    /\ UNCHANGED <<processor, disk, cssFiles, faults, call, ret>>

\* loadCSSFilesForPath: fs.stat of the root fails, or the root is no directory
LoadRootFail(r) ==
    /\ req[r].pc = "load"
    /\ req[r].todo[1] \notin Dirs
    /\ req' = [req EXCEPT ![r] = Respond(req[r], Failure(500, "ENOENT"))]
    /\ UNCHANGED <<processor, disk, cssFiles, projectPath, domainMappings, faults,
                   received, call, ret>>

\* loadCSSFilesForPath: fs.stat of the root succeeds and finds a directory;
\* scanDirectory is called and waits for its fs.readdir
StatOk(r) ==
    /\ req[r].pc = "load"
    /\ req[r].todo[1] \in Dirs
    /\ req' = [req EXCEPT ![r].pc = "scan"]
    /\ UNCHANGED <<processor, disk, cssFiles, projectPath, domainMappings, faults,
                   received, call, ret>>

\* the fs.readdir of a directory (the root, or a subdirectory met during the
\* scan); its entries are visited before the rest of the parent's
ScanReaddir(r) ==
    /\ req[r].pc = "scan"
    /\ req[r].todo # <<>>
    /\ req[r].todo[1] \in Dirs
    /\ \E order \in Orders(ScanEntries(req[r].todo[1], disk)) :
          LET todo == order \o Tail(req[r].todo)
              q == [req[r] EXCEPT !.pc = "scan", !.todo = todo]
          IN  req' = [req EXCEPT ![r] =
                         IF todo = <<>> THEN AfterLoad(q, cssFiles) ELSE q]
    /\ UNCHANGED <<processor, disk, cssFiles, projectPath, domainMappings, faults,
                   received, call, ret>>

\* the file that the fs.readFile of request q reads
ReadTarget(q) == IF q.pc = "scan" THEN q.todo[1] ELSE q.file

\* request q stands at an fs.readFile
Reading(q) ==
    \/ q.pc = "scan" /\ q.todo # <<>> /\ q.todo[1] \notin Dirs
    \/ q.pc \in {"mkread", "read"}

\* what a read of the file returns now: the text up to the size taken, or,
\* for a file found empty, the text behind what was read before
ReadBytes(q, text) ==
    IF q.size[1] > 0 THEN Substring(text, 0, q.size[1])
    ELSE SubstringFrom(text, Len(q.got))

\* the read is the last one of the fs.readFile
ReadEnds(q, text) == q.size[1] > 0 \/ ReadBytes(q, text) = <<>>

\* the request after a read has returned: the text read is kept; after the
\* last read the close of the file is awaited, else the next read
ReadOn(q, text) ==
    [q EXCEPT !.got = IF q.size[1] > 0 THEN ReadBytes(q, text)
                      ELSE q.got \o ReadBytes(q, text),
              !.eof = ReadEnds(q, text)]

\* the request with its fs.readFile over
ReadOver(q) == [q EXCEPT !.size = None, !.got = <<>>, !.eof = FALSE]

\* loadCSSFile: fs.readFile has opened the file and taken its size
ReadFileStat(r) ==
    /\ Reading(req[r])
    /\ req[r].size = None
    /\ ReadTarget(req[r]) \in DOMAIN disk
    /\ req' = [req EXCEPT ![r].size = Some(Len(disk[ReadTarget(req[r])]))]
    /\ UNCHANGED <<processor, disk, cssFiles, projectPath, domainMappings, faults,
                   received, call, ret>>

\* loadCSSFile: a read of fs.readFile returns what the file holds then
ReadFileRead(r) ==
    /\ Reading(req[r])
    /\ req[r].size # None
    /\ ~req[r].eof
    /\ ReadTarget(req[r]) \in DOMAIN disk
    /\ req' = [req EXCEPT ![r] = ReadOn(req[r], disk[ReadTarget(req[r])])]
    /\ UNCHANGED <<processor, disk, cssFiles, projectPath, domainMappings, faults,
                   received, call, ret>>

\* scanDirectory -> loadCSSFile: the file is closed and fs.readFile resolves
\* with the text read; the entry is stored and the scan goes on
ScanLoadOk(r) ==
    /\ req[r].pc = "scan"
    /\ req[r].todo # <<>>
    /\ req[r].eof
    /\ LET filePath == req[r].todo[1]
           files == loadCSSFile(cssFiles, filePath, req[r].got)
           q == [ReadOver(req[r]) EXCEPT !.todo = Tail(req[r].todo)]
       IN  /\ cssFiles' = files
           /\ req' = [req EXCEPT ![r] =
                         IF q.todo = <<>> THEN AfterLoad(q, files) ELSE q]
    /\ UNCHANGED <<processor, disk, projectPath, domainMappings, faults, received, call,
                   ret>>

\* scanDirectory -> loadCSSFile: the read fails; the error is logged and dropped
ScanLoadFail(r) ==
    /\ req[r].pc = "scan"
    /\ req[r].todo # <<>>
    /\ req[r].todo[1] \notin Dirs
    /\ \/ req[r].todo[1] \notin DOMAIN disk /\ faults' = faults
       \/ faults < MaxFaults /\ faults' = faults + 1
    /\ LET q == [ReadOver(req[r]) EXCEPT !.todo = Tail(req[r].todo)]
       IN  req' = [req EXCEPT ![r] =
                      IF q.todo = <<>> THEN AfterLoad(q, cssFiles) ELSE q]
    /\ UNCHANGED <<processor, disk, cssFiles, projectPath, domainMappings, received,
                   call, ret>>

\* the disk d with file f holding text
WithFile(d, f, text) ==
    [g \in DOMAIN d \cup {f} |-> IF g = f THEN text ELSE d[g]]

\* the disk d after text was written to file f from its start: what the file
\* held behind the length of the text stays
WrittenOver(d, f, text) ==
    WithFile(d, f, IF f \in DOMAIN d THEN text \o SubstringFrom(d[f], Len(text))
                   ELSE text)

\* findTargetFile: fs.writeFile opens main.css, which creates it empty
MainWriteOpen(r) ==
    /\ req[r].pc = "mkwrite"
    /\ Dirname(req[r].file) \in Dirs
    /\ disk' = WithFile(disk, req[r].file, <<>>)
    /\ req' = [req EXCEPT ![r].pc = "mkwriting"]
    /\ UNCHANGED <<processor, cssFiles, projectPath, domainMappings, faults, received,
                   call, ret>>

\* findTargetFile: the header is written to main.css and fs.writeFile resolves
MainWriteOk(r) ==
    /\ req[r].pc = "mkwriting"
    /\ disk' = WrittenOver(disk, req[r].file, req[r].content)
    /\ req' = [req EXCEPT ![r].pc = "mkread"]
    /\ UNCHANGED <<processor, cssFiles, projectPath, domainMappings, faults, received,
                   call, ret>>

\* faulty variant of MainWriteFail: the error is not caught, nothing is sent
MainWriteFailUncaught(r) ==
    /\ \/ /\ req[r].pc = "mkwrite"
          /\ Dirname(req[r].file) \notin Dirs
          /\ faults' = faults
       \/ /\ req[r].pc \in {"mkwrite", "mkwriting"}
          /\ faults < MaxFaults
          /\ faults' = faults + 1
    /\ req' = [req EXCEPT ![r].pc = "thrown"]
    /\ UNCHANGED <<processor, disk, cssFiles, projectPath, domainMappings, received,
                   call, ret>>

\* findTargetFile: the write of main.css fails, when the file is opened or,
\* leaving it empty, when the header is written; the error reaches the
\* route's catch
MainWriteFail(r) ==
    /\ \/ /\ req[r].pc = "mkwrite"
          /\ Dirname(req[r].file) \notin Dirs
          /\ faults' = faults
       \/ /\ req[r].pc \in {"mkwrite", "mkwriting"}
          /\ faults < MaxFaults
          /\ faults' = faults + 1
    /\ req' = [req EXCEPT ![r] = Respond(req[r], Failure(500, "EIO"))]
    /\ UNCHANGED <<processor, disk, cssFiles, projectPath, domainMappings, received,
                   call, ret>>

\* findTargetFile: main.css is closed and the fs.readFile of
\* loadCSSFile(main.css) resolves with the text read; the entry is stored and
\* createNewRule goes on
MainLoadOk(r) ==
    /\ req[r].pc = "mkread"
    /\ req[r].eof
    /\ LET files == loadCSSFile(cssFiles, req[r].file, req[r].got)
       IN  /\ cssFiles' = files
           /\ req' = [req EXCEPT ![r] =
                         createNewRuleText(ReadOver(req[r]), files, req[r].file)]
    /\ UNCHANGED <<processor, disk, projectPath, domainMappings, faults, received, call,
                   ret>>

\* findTargetFile: loadCSSFile(main.css) read fails (dropped), createNewRule goes on
MainLoadFail(r) ==
    /\ req[r].pc = "mkread"
    /\ \/ req[r].file \notin DOMAIN disk /\ faults' = faults
       \/ faults < MaxFaults /\ faults' = faults + 1
    /\ req' = [req EXCEPT ![r] =
                  createNewRuleText(ReadOver(req[r]), cssFiles, req[r].file)]
    /\ UNCHANGED <<processor, disk, cssFiles, projectPath, domainMappings, received,
                   call, ret>>

\* updateExistingRule / createNewRule: fs.writeFile opens the file, which
\* empties it (or creates it empty)
WriteOpen(r) ==
    /\ req[r].pc = "write"
    /\ disk' = WithFile(disk, req[r].file, <<>>)
    /\ req' = [req EXCEPT ![r].pc = "writing"]
    /\ UNCHANGED <<processor, cssFiles, projectPath, domainMappings, faults, received,
                   call, ret>>

\* updateExistingRule / createNewRule: the new content is written and
\* fs.writeFile resolves
WriteOk(r) ==
    /\ req[r].pc = "writing"
    /\ disk' = WrittenOver(disk, req[r].file, req[r].content)
    /\ req' = [req EXCEPT ![r].pc = "read"]
    /\ UNCHANGED <<processor, cssFiles, projectPath, domainMappings, faults, received,
                   call, ret>>

\* faulty variant of WriteFail: the file's entry is dropped from the index
WriteFailInvalidate(r) ==
    /\ req[r].pc \in {"write", "writing"}
    /\ faults < MaxFaults
    /\ faults' = faults + 1
    /\ cssFiles' = SelectSeq(cssFiles, LAMBDA e : e.path # req[r].file)
    /\ req' = [req EXCEPT ![r] = Respond(req[r], Failure(200, "EIO"))]
    /\ UNCHANGED <<processor, disk, projectPath, domainMappings, received, call, ret>>

\* updateExistingRule / createNewRule: fs.writeFile fails, when the file is
\* opened or, leaving it empty, when the content is written; caught by the
\* `try`
WriteFail(r) ==
    /\ req[r].pc \in {"write", "writing"}
    /\ faults < MaxFaults
    /\ faults' = faults + 1
    /\ req' = [req EXCEPT ![r] = Respond(req[r], Failure(200, "EIO"))]
    /\ UNCHANGED <<processor, disk, cssFiles, projectPath, domainMappings, received,
                   call, ret>>

\* the result object of updateExistingRule / createNewRule
WriteResult(q) ==
    LET b == q.body[1]
    IN  Success(q.file,
                IF q.op = "update" THEN q.match[1].rule.selector
                ELSE b.selectorVariations[1][1].selector,
                ObjKeys(b.changes[1]),
                q.op = "create")

\* `await this.loadCSSFile(filePath)` after the write: the file is closed
\* and fs.readFile resolves with the text read; the entry is stored and the
\* result returned
ReloadOk(r) ==
    /\ req[r].pc = "read"
    /\ req[r].eof
    /\ cssFiles' = loadCSSFile(cssFiles, req[r].file, req[r].got)
    /\ req' = [req EXCEPT ![r] = Respond(req[r], WriteResult(req[r]))]
    /\ UNCHANGED <<processor, disk, projectPath, domainMappings, faults, received, call,
                   ret>>

\* `await this.loadCSSFile(filePath)` after the write: the read fails (dropped)
ReloadFail(r) ==
    /\ req[r].pc = "read"
    /\ \/ req[r].file \notin DOMAIN disk /\ faults' = faults
       \/ faults < MaxFaults /\ faults' = faults + 1
    /\ req' = [req EXCEPT ![r] = Respond(req[r], WriteResult(req[r]))]
    /\ UNCHANGED <<processor, disk, cssFiles, projectPath, domainMappings, received,
                   call, ret>>

Next ==
    \E r \in Req :
        \/ \E body \in ApplyBodies : ReceiveApply(r, body)
        \/ \E cfg \in ConfigBodies : ReceiveConfigure(r, cfg)
        \/ LoadRootFail(r)
        \/ StatOk(r)
        \/ ScanReaddir(r)
        \/ ReadFileStat(r)
        \/ ReadFileRead(r)
        \/ ScanLoadOk(r)
        \/ ScanLoadFail(r)
        \/ MainWriteOpen(r)
        \/ MainWriteOk(r)
        \/ MainWriteFail(r)
        \/ MainLoadOk(r)
        \/ MainLoadFail(r)
        \/ WriteOpen(r)
        \/ WriteOk(r)
        \/ WriteFail(r)
        \/ ReloadOk(r)
        \/ ReloadFail(r)

Spec == Init /\ [][Next]_vars

-----------------------------------------------------------------------------
(* findBestMatch on its own: an index loaded from a small tree of files,   *)
(* and one call of findBestMatch against it.                               *)

MaxClasses == 3         \* classes on the changed element

ClassPool == << <<"a">>, <<"b">>, <<"c">>, <<"e">> >>

\* the class lists of the changed element: the first n classes of the pool
MatchClassLists == {SubSeq(ClassPool, 1, n) : n \in 0..MaxClasses}

\* selectors of the rules in the indexed files: ".a", ".b", "d .a", "d .a.b.c"
MatchSelectors ==
    {<<".","a">>, <<".","b">>, <<"d"," ",".","a">>,
     <<"d"," ",".","a",".","b",".","c">>}

RuleBlock(selector) == selector \o <<"{","c",":","r","}">>

OneRuleContents == {RuleBlock(s) : s \in MatchSelectors}
TwoRuleContents ==
    {RuleBlock(s1) \o <<"\n">> \o RuleBlock(s2) : s1, s2 \in MatchSelectors}

\* the files of a tree, in the order the scan loaded them
\* a rule for a class whose name begins with the names of two other classes
LongerClassBlock == RuleBlock(<<".","a","b","c">>)

MatchTrees ==
    {<< <<FileA, c>> >> : c \in OneRuleContents \cup TwoRuleContents
                                \cup {LongerClassBlock}}
    \cup {<< <<FileA, c1>>, <<f, c2>> >> :
             c1 \in OneRuleContents \cup TwoRuleContents,
             f \in {FileB, FileC}, c2 \in OneRuleContents}

RECURSIVE LoadAll(_, _)
LoadAll(files, tree) ==
    IF tree = <<>> THEN files
    ELSE LoadAll(loadCSSFile(files, tree[1][1], tree[1][2]), Tail(tree))

\* the request bodies of the calls: generated variations, or none at all
MatchCalls ==
    {[selectorVariations |-> generateSelectorVariations(sel, cl),
      classList |-> cl, targetPath |-> tp] :
        sel \in {<<".","a">>, <<"d",".","a">>}, cl \in MatchClassLists,
        tp \in {RootP, RootPQ}}
    \cup {[selectorVariations |-> <<>>, classList |-> << <<"a">> >>,
           targetPath |-> RootP],
          [selectorVariations |->
               generateSelectorVariations(<<".","a">>, << <<"a">>, <<"a","b">> >>),
           classList |-> << <<"a">>, <<"a","b">> >>, targetPath |-> RootP]}

InitMatch ==
    /\ \E tree \in MatchTrees :
          /\ disk = [f \in {tree[i][1] : i \in 1..Len(tree)} |->
                        tree[CHOOSE i \in 1..Len(tree) : tree[i][1] = f][2]]
          /\ cssFiles = LoadAll(<<>>, tree)
    /\ projectPath = <<>>
    /\ domainMappings = <<>>
    /\ req = [r \in Req |-> IdleRequest]
    /\ faults = 0
    /\ received = 0
    /\ call \in {Some(c) : c \in MatchCalls}
    /\ ret = None
    /\ processor = IdleProcessor("first")

FindBestMatchCall ==
    /\ call # None
    /\ ret = None
    /\ ret' = Some(findBestMatch(call[1].selectorVariations, call[1].classList,
                                 call[1].targetPath, cssFiles))
    /\ UNCHANGED <<processor, disk, cssFiles, projectPath, domainMappings, req, faults, received,
                   call>>

NextMatch == FindBestMatchCall

SpecMatch == InitMatch /\ [][NextMatch]_vars

-----------------------------------------------------------------------------
(* parseCSS, the serialization of updateExistingRule, and updateExistingRule *)
(* itself, each called on its own (specification SpecRule)                 *)

\* selectors: ".a", "d .a", "a:h", "d>.a"
RuleSelectors ==
    {<<".","a">>, <<"d"," ",".","a">>, <<"a",":","h">>, <<"d",">",".","a">>}

\* declaration texts: "c:r", "c:r;", "c: r; m: 0", " c : r ;\n m:0 ",
\* "c:r;c:g", "b:u(h://x)", "c:r !i", "--v: 1;m:0", " ", "m:0;\n"
RuleDeclarations ==
    {<<"c",":","r">>,
     <<"c",":","r",";">>,
     <<"c",":"," ","r",";"," ","m",":"," ","0">>,
     <<" ","c"," ",":"," ","r"," ",";","\n"," ","m",":","0"," ">>,
     <<"c",":","r",";","c",":","g">>,
     <<"b",":","u","(","h",":","/","/","x",")">>,
     <<"c",":","r"," ","!","i">>,
     <<"-","-","v",":"," ","1",";","m",":","0">>,
     <<" ">>,
     <<"m",":","0",";","\n">>}

\* well-formed texts of one rule: white space, selector, white space, block
SingleRuleTexts ==
    {lead \o sel \o gap \o <<"{">> \o decl \o <<"}">> \o trail :
        lead \in {<<>>, <<"\n">>}, sel \in RuleSelectors,
        gap \in {<<>>, <<" ">>}, decl \in RuleDeclarations,
        trail \in {<<>>, <<"\n">>}}

\* the index of the calls of updateExistingRule: /p/a.css is loaded
RuleIndex == loadCSSFile(<<>>, FileA, ContentA)

\* matches as findBestMatch builds them: a rule of /p/a.css, or the same rule
\* attributed to a file that has no entry in the index
RuleMatches ==
    {[filePath |-> f, rule |-> RuleIndex[1].parsed[k],
      matchedSelector |-> RuleIndex[1].parsed[k].selector, score |-> 100] :
        f \in {FileA, FileB, FileC}, k \in 1..Len(RuleIndex[1].parsed)}

RuleCalls ==
    {[kind |-> "reparse", text |-> x] : x \in SingleRuleTexts}
    \cup {[kind |-> "update", match |-> m, body |-> b] :
             m \in RuleMatches, b \in {BodyUpdateB, BodyDeleteA}}

InitRule ==
    /\ disk = [f \in {FileA} |-> ContentA]
    /\ cssFiles = RuleIndex
    /\ projectPath = <<>>
    /\ domainMappings = <<>>
    /\ req = [r \in Req |-> IdleRequest]
    /\ faults = 0
    /\ received = 0
    /\ call \in {Some(c) : c \in RuleCalls}
    /\ ret = None
    /\ processor = IdleProcessor("first")

\* the text updateExistingRule writes for a rule left as it is
Serialize(rule) == RuleText(rule.selector, DeclarationLines(rule.properties))

\* parse(serialize(parse(x))) for a text of one rule
ReparseCall ==
    /\ call # None
    /\ call[1].kind = "reparse"
    /\ ret = None
    /\ ret' = Some(parseCSS(Serialize(parseCSS(call[1].text)[1])))
    /\ UNCHANGED <<processor, disk, cssFiles, projectPath, domainMappings, req, faults, received,
                   call>>

\* updateExistingRule(match, changes, targetPath) up to its write or its return
UpdateRuleCall ==
    /\ call # None
    /\ call[1].kind = "update"
    /\ ret = None
    /\ ret' = Some(updateExistingRule(
                       [IdleRequest EXCEPT !.kind = "apply",
                                           !.body = Some(call[1].body),
                                           !.targetPath = call[1].body.targetPath,
                                           !.match = Some(call[1].match)],
                       cssFiles, call[1].match))
    /\ UNCHANGED <<processor, disk, cssFiles, projectPath, domainMappings, req, faults, received,
                   call>>

NextRule == ReparseCall \/ UpdateRuleCall

SpecRule == InitRule /\ [][NextRule]_vars

-----------------------------------------------------------------------------
(* Properties of the patcher and the index (specification Spec)            *)

\* a request whose updateExistingRule / createNewRule has computed the new
\* content and is writing it (pc "write", "writing") or has written it (pc
\* "read")
Writing(r)  == req[r].pc \in {"write", "writing", "read"}
Updating(r) == Writing(r) /\ req[r].op = "update"
Written(r)  == req[r].pc = "read"

\* the text `new` is the text `old` with the range of `rule` replaced by
\* newRule: the old prefix, the new rule text, the old suffix
SplicedFrom(new, old, rule, newRule) ==
    /\ Len(new) = rule.startIndex + Len(newRule) + (Len(old) - rule.endIndex)
    /\ SubSeq(new, 1, rule.startIndex) = SubSeq(old, 1, rule.startIndex)
    /\ SubSeq(new, rule.startIndex + 1, rule.startIndex + Len(newRule)) = newRule
    /\ SubSeq(new, rule.startIndex + Len(newRule) + 1, Len(new))
           = SubSeq(old, rule.endIndex + 1, Len(old))

\* the rule text that the update of request r serializes
NewRuleOf(r) ==
    RuleText(req[r].match[1].rule.selector,
             DeclarationLines(ApplyChanges(req[r].match[1].rule.properties,
                                           req[r].body[1].changes[1], 1)))

\* the write of the update of request r completes in this step
UpdateWritten(r) ==
    /\ req[r].op = "update"
    /\ req[r].pc = "writing"
    /\ req'[r].pc = "read"

\* C1: when the write of an update completes, the file holds the cached
\* content with the matched rule's range [startIndex, endIndex) replaced by
\* the new rule text: the prefix before startIndex is the old prefix and what
\* follows the new rule text is the old suffix from endIndex on; no character
\* outside the range is altered.
C1_SpliceLocality ==
    [][\A r \in Req : UpdateWritten(r) =>
          SplicedFrom(disk'[req[r].file], req[r].base, req[r].match[1].rule,
                      NewRuleOf(r))]_vars

\* the offset at which the selector text of a rule starts in its content
SelectorStart(content, rule) ==
    Min({i \in (rule.startIndex + 1)..Len(content) : ~IsSpace(content[i])}) - 1

\* C2: an update changes only the rule's own block, from its selector text to
\* its closing brace: everything before the selector, the white space after
\* the preceding rule included, is unchanged in the written content.
C2_OnlyRuleBlockChanges ==
    \A r \in Req : Updating(r) =>
        LET rule == req[r].match[1].rule
            n    == SelectorStart(req[r].base, rule)
        IN  Substring(req[r].content, 0, n) = Substring(req[r].base, 0, n)

\* the rule of `content` that carries `selector`, as a set (empty if none)
RulesFor(content, selector) ==
    LET rules == parseCSS(content)
    IN  {rules[i] : i \in {k \in 1..Len(rules) : rules[k].selector = selector}}

\* C3: two requests never hold the same file between reading its cached
\* content and finishing their write and re-parse; and so a file shows the
\* change of every update that reported success.
C3_NoInterleavedUpdates ==
    /\ \A r1, r2 \in Req :
          r1 # r2 /\ Writing(r1) /\ Writing(r2) => req[r1].file # req[r2].file
    /\ \A r \in Req :
          (req[r].pc = "done" /\ req[r].kind = "apply" /\ req[r].result[1].success
              /\ ~req[r].result[1].created) =>
          LET res == req[r].result[1]
              changes == req[r].body[1].changes[1]
          IN  \E rule \in RulesFor(disk[res.fullPath], res.selector) :
                  \A i \in 1..Len(changes) :
                      /\ ObjHas(rule.properties, changes[i][1])
                      /\ ObjGet(rule.properties, changes[i][1])
                             = ChangeText(changes[i][2])

\* C4: every rule of every index entry lies inside the entry's content, the
\* rules are in ascending order without overlap, and they are the rules of
\* exactly that content.
C4_IndexConsistent ==
    \A i \in 1..Len(cssFiles) :
        LET e == cssFiles[i]
        IN  /\ e.parsed = parseCSS(e.content)
            /\ \A k \in 1..Len(e.parsed) :
                  /\ 0 <= e.parsed[k].startIndex
                  /\ e.parsed[k].startIndex < e.parsed[k].endIndex
                  /\ e.parsed[k].endIndex <= Len(e.content)
                  /\ k < Len(e.parsed) =>
                         e.parsed[k].endIndex <= e.parsed[k + 1].startIndex

\* an entry with several rules was read back after two overlapping writes:
\* its content is the text one update wrote followed by the rest of a longer
\* text, which no handler wrote as a whole
C4_Witness ==
    \E r \in Req, i \in 1..Len(cssFiles) :
        /\ req[r].op = "update" /\ req[r].pc \in {"read", "done"}
        /\ cssFiles[i].path = req[r].file
        /\ Len(req[r].content) > 0
        /\ Len(cssFiles[i].content) > Len(req[r].content)
        /\ Substring(cssFiles[i].content, 0, Len(req[r].content)) = req[r].content
        /\ cssFiles[i].content \notin {ContentA, ContentB, ContentC}
        /\ Len(cssFiles[i].parsed) >= 2

\* C5: when an update or a creation reports success, the index entry of the
\* written file holds the content that was written and the rules parsed
\* from it.
C5_SuccessMeansReindexed ==
    [][\A r \in Req :
          (req[r].pc = "read" /\ req'[r].pc = "done" /\ req'[r].result[1].success) =>
              /\ MapHas(cssFiles', req[r].file)
              /\ MapGet(cssFiles', req[r].file).content = req[r].content
              /\ MapGet(cssFiles', req[r].file).parsed = parseCSS(req[r].content)]_vars

\* C9: a match, and the file a new rule is appended to, always lie under the
\* resolved target root of the request (as a prefix of the path).
C9_ScopedToRoot ==
    \A r \in Req :
        /\ req[r].match # None =>
               StartsWith(req[r].match[1].filePath, PathResolve(req[r].targetPath))
        /\ req[r].pc \in {"mkwrite", "mkwriting", "mkread", "write", "writing", "read"} =>
               StartsWith(req[r].file, PathResolve(req[r].targetPath))

\* a rule is being created under /pq although a cached file outside /pq has
\* a rule that one of the variations names exactly
C9_Witness ==
    \E r \in Req :
        /\ Writing(r) /\ req[r].op = "create"
        /\ PathResolve(req[r].targetPath) = RootPQ
        /\ \E i \in 1..Len(cssFiles) :
              /\ ~StartsWith(cssFiles[i].path, RootPQ)
              /\ \E k \in 1..Len(cssFiles[i].parsed) :
                    \E v \in 1..Len(req[r].body[1].selectorVariations[1]) :
                        cssFiles[i].parsed[k].selector
                            = req[r].body[1].selectorVariations[1][v].selector

\* C10: a change {from, to: "(deleted)"} for property p leaves the rewritten
\* rule without a declaration for p, and "(deleted)" is never written.
C10_DeletionRemovesProperty ==
    \A r \in Req : Updating(r) =>
        LET changes == req[r].body[1].changes[1]
            deleted == {i \in 1..Len(changes) :
                            /\ changes[i][2].type = "object"
                            /\ changes[i][2].to = DeletedSentinel}
        IN  deleted # {} =>
              /\ ~Includes(req[r].content, DeletedSentinel)
              /\ \A rule \in RulesFor(req[r].content, req[r].match[1].rule.selector) :
                    \A i \in deleted : ~ObjHas(rule.properties, changes[i][1])

-----------------------------------------------------------------------------
(* Properties of findBestMatch (specification SpecMatch)                   *)

\* the (file, rule, variation) index triples of the search space
ScopePairs ==
    {t \in UNION {{f} \X (1..Len(cssFiles[f].parsed))
                      \X (1..Len(call[1].selectorVariations)) :
                  f \in 1..Len(cssFiles)} :
        StartsWith(cssFiles[t[1]].path, PathResolve(call[1].targetPath))}

PairRule(t)      == cssFiles[t[1]].parsed[t[2]]
PairVariation(t) == call[1].selectorVariations[t[3]].selector
PairScore(t) == calculateMatchScore(PairRule(t).selector, PairVariation(t),
                                    call[1].classList)

MaxPairScore == IF ScopePairs = {} THEN 0 ELSE Max({PairScore(t) : t \in ScopePairs})

\* scan order: file, then rule, then variation
ScansBefore(t, u) ==
    \/ t[1] < u[1]
    \/ t[1] = u[1] /\ t[2] < u[2]
    \/ t[1] = u[1] /\ t[2] = u[2] /\ t[3] < u[3]

\* C6: findBestMatch returns no match exactly when the greatest score over
\* the search space is at most 50 (an empty search space included).
C6_ThresholdGate ==
    ret # None => ((ret[1] = None) <=> (MaxPairScore <= 50))

\* a call returned no match although a pair scored exactly 50
C6_Witness == ret # None /\ ret[1] = None /\ MaxPairScore = 50

\* C7: a returned match carries the greatest score of the search space and
\* is the first pair, in scan order, that attains it.
C7_FirstBestPair ==
    (ret # None /\ ret[1] # None) =>
        LET m == ret[1][1]
            best == {t \in ScopePairs : PairScore(t) = MaxPairScore}
            first == CHOOSE t \in best : \A u \in best : u = t \/ ScansBefore(t, u)
        IN  /\ m.score = MaxPairScore
            /\ m.filePath = cssFiles[first[1]].path
            /\ m.rule = PairRule(first)
            /\ m.matchedSelector = PairVariation(first)

\* a match was returned where two different rules tie for the greatest
\* score, and the variation of highest priority is not the one matched
C7_Witness ==
    /\ ret # None /\ ret[1] # None
    /\ \E t, u \in ScopePairs :
          /\ PairScore(t) = MaxPairScore /\ PairScore(u) = MaxPairScore
          /\ <<t[1], t[2]>> # <<u[1], u[2]>>
    /\ ret[1][1].matchedSelector # call[1].selectorVariations[1].selector

\* C8: a pair whose rule selector equals the variation scores exactly 100,
\* and where the search space has such a pair the match returned is one.
C8_ExactMatchWins ==
    ret # None =>
        LET exact == {t \in ScopePairs : PairRule(t).selector = PairVariation(t)}
        IN  /\ \A t \in exact : PairScore(t) = 100
            /\ exact # {} =>
                  /\ ret[1] # None
                  /\ ret[1][1].rule.selector = ret[1][1].matchedSelector

-----------------------------------------------------------------------------
(* The agent handling a single request, over a wider choice of files and   *)
(* of request bodies (specification SpecApply)                             *)

FileD == <<"/","p","q","/","d",".","c","s","s">>

\* ".a{c:r;m:0}\nd .a.b.c{c:r}"
ContentMulti ==
    <<".","a","{","c",":","r",";","m",":","0","}","\n",
      "d"," ",".","a",".","b",".","c","{","c",":","r","}">>
\* ".cc{m:00}", as long as ContentC
ContentD == <<".","c","c","{","m",":","0","0","}">>

\* /p/a.css with a rule that names three classes
DiskMulti == [f \in {FileA} |-> ContentMulti]
\* /pq holds one stylesheet, which is empty
DiskEmptyFile == [f \in {FileA, FileC} |-> IF f = FileA THEN ContentA ELSE <<>>]
\* /pq holds two stylesheets of the same length
DiskEqualFiles == [f \in {FileC, FileD} |-> IF f = FileC THEN ContentC ELSE ContentD]

ApplyDisks == InitialDisks \cup {DiskMulti, DiskEmptyFile, DiskEqualFiles}

\* .b: color red -> "", under /p
BodyEmptyTo ==
    enhanceChangeData(<<".","b">>, << <<"b">> >>,
                      << <<<<"c">>, FromTo(<<"r">>, <<>>)>> >>, <<>>, RootP)
\* .a on an element of classes a, b and c: color red -> green, under /p
BodyMulti ==
    enhanceChangeData(<<".","a">>, << <<"a">>, <<"b">>, <<"c">> >>,
                      << <<<<"c">>, FromTo(<<"r">>, <<"g">>)>> >>, <<>>, RootP)
\* .a: margin 0 -> 1 and padding 2 added, under /p
BodyAddProp ==
    enhanceChangeData(<<".","a">>, << <<"a">> >>,
                      << <<<<"m">>, FromTo(<<"0">>, <<"1">>)>>,
                         <<<<"p">>, ValueChange(<<"2">>)>> >>, <<>>, RootP)
\* d.n on an element of class n: color green added, under /pq
BodyCreateElem ==
    enhanceChangeData(<<"d",".","n">>, << <<"n">> >>,
                      << <<<<"c">>, ValueChange(<<"g">>)>> >>, <<>>, RootPQ)
\* bodies without `changes`, and without `selectorVariations`
BodyNoChanges    == [BodyUpdateB EXCEPT !.changes = None]
BodyNoVariations == [BodyCreateB EXCEPT !.selectorVariations = None]

ApplyBodiesWide ==
    ApplyBodies \cup {BodyEmptyTo, BodyMulti, BodyAddProp, BodyCreateElem,
                      BodyNoChanges, BodyNoVariations}

\* the agent has started and one request is still to come
InitApply ==
    /\ disk \in ApplyDisks
    /\ cssFiles = <<>>
    /\ projectPath = <<>>
    /\ domainMappings = <<>>
    /\ req = [r \in Req |-> IdleRequest]
    /\ faults = 0
    /\ received = MaxRequests - 1
    /\ call = KeepHistory
    /\ ret = None
    /\ processor = IdleProcessor("first")

NextApply ==
    \E r \in Req :
        \/ \E body \in ApplyBodiesWide : ReceiveApply(r, body)
        \/ \E cfg \in ConfigBodies : ReceiveConfigure(r, cfg)
        \/ LoadRootFail(r)
        \/ StatOk(r)
        \/ ScanReaddir(r)
        \/ ReadFileStat(r)
        \/ ReadFileRead(r)
        \/ ScanLoadOk(r)
        \/ ScanLoadFail(r)
        \/ MainWriteOpen(r)
        \/ MainWriteOk(r)
        \/ MainWriteFail(r)
        \/ MainLoadOk(r)
        \/ MainLoadFail(r)
        \/ WriteOpen(r)
        \/ WriteOk(r)
        \/ WriteFail(r)
        \/ ReloadOk(r)
        \/ ReloadFail(r)

SpecApply == InitApply /\ [][NextApply]_vars

-----------------------------------------------------------------------------
(* Properties of a single applied change (specification SpecApply)         *)

\* the changes of a valid request body, as <<property, change>> pairs
ChangesOf(r) == req[r].body[1].changes[1]

\* the text of the rule block that request r writes: what replaces the matched
\* rule's range in an update, what is appended in a creation
WrittenBlock(r) ==
    IF req[r].op = "update"
    THEN SubSeq(req[r].content, req[r].match[1].rule.startIndex + 1,
                Len(req[r].content)
                    - (Len(req[r].base) - req[r].match[1].rule.endIndex))
    ELSE SubSeq(req[r].content, Len(req[r].base) + 1, Len(req[r].content))

\* the value the change asks for: `to` of a {from, to} object, else the value
ToOrRaw(change) == IF change.type = "object" THEN change.to ELSE change.value

\* the declaration line "\n  <property>: <value>;\n"
DeclarationLine(property, value) ==
    <<"\n", " ", " ">> \o property \o <<":", " ">> \o value \o <<";", "\n">>

\* C11: in an update and in a creation, every entry of `changes` is written
\* with the value `to` when it is an object with a `to` field (whatever `to`
\* is, the empty string included), and with the raw value otherwise.
C11_ValueWrittenIsTo ==
    \A r \in Req : Writing(r) =>
        \A i \in 1..Len(ChangesOf(r)) :
            Includes(WrittenBlock(r),
                     DeclarationLine(ChangesOf(r)[i][1], ToOrRaw(ChangesOf(r)[i][2])))

\* the properties declared by the rule block that request r writes
WrittenProperties(r) == parseCSS(WrittenBlock(r))[1].properties

\* the properties named in `changes` that the matched rule does not declare
Added(r) ==
    SelectSeq(ObjKeys(ChangesOf(r)),
              LAMBDA k : ~ObjHas(req[r].match[1].rule.properties, k))

\* C12: after an update, the rule declares its previous properties first and
\* in their previous order, each one not named in `changes` with its previous
\* value, followed by the properties that are new to the rule.
C12_OtherPropertiesKept ==
    \A r \in Req : Updating(r) =>
        LET old == req[r].match[1].rule.properties
            new == WrittenProperties(r)
        IN  /\ Len(parseCSS(WrittenBlock(r))) = 1
            /\ Len(new) = Len(old) + Len(Added(r))
            /\ \A i \in 1..Len(old) :
                  /\ new[i][1] = old[i][1]
                  /\ ~ObjHas(ChangesOf(r), old[i][1]) => new[i][2] = old[i][2]
            /\ \A j \in 1..Len(Added(r)) : new[Len(old) + j][1] = Added(r)[j]

\* an update was written to a rule of two properties: one is left alone, one
\* is changed, and a third is added
C12_Witness ==
    \E r \in Req :
        /\ Updating(r) /\ Written(r)
        /\ Len(req[r].match[1].rule.properties) = 2
        /\ Len(Added(r)) = 1
        /\ \E i, j \in 1..2 :
              /\ ~ObjHas(ChangesOf(r), req[r].match[1].rule.properties[i][1])
              /\ ObjHas(ChangesOf(r), req[r].match[1].rule.properties[j][1])

\* applyCSSChange of request r found, in a file under the target path, a rule
\* whose selector is one of the request's variation selectors
ExactRuleIndexed(r) ==
    /\ req[r].kind = "apply"
    /\ req[r].body[1].selectorVariations # None
    /\ \E f \in 1..Len(req[r].index) :
          /\ StartsWith(req[r].index[f].path, PathResolve(req[r].targetPath))
          /\ \E k \in 1..Len(req[r].index[f].parsed) :
                \E v \in 1..Len(req[r].body[1].selectorVariations[1]) :
                    req[r].index[f].parsed[k].selector
                        = req[r].body[1].selectorVariations[1][v].selector

\* C13: when a file under the target root holds a rule whose selector equals
\* one of the variation selectors and no file operation fails, the request
\* rewrites that rule in place (the file parses to as many rules as before)
\* and answers success with the names of the changed properties and without
\* `created`.
C13_ExactRuleRewritten ==
    \A r \in Req : (ExactRuleIndexed(r) /\ faults = 0) =>
        /\ req[r].pc \in {"write", "writing", "read", "done"}
        /\ Writing(r) =>
              /\ req[r].op = "update"
              /\ req[r].match[1].rule.selector = req[r].match[1].matchedSelector
              /\ Len(parseCSS(req[r].content)) = Len(parseCSS(req[r].base))
        /\ req[r].pc = "done" =>
              /\ req[r].result[1].success
              /\ req[r].result[1].changes = ObjKeys(ChangesOf(r))
              /\ ~req[r].result[1].created

\* a request that found no match and is on its way through createNewRule
Creating(r) ==
    req[r].op = "create" /\ req[r].pc \in {"mkwrite", "mkwriting", "mkread", "write", "writing", "read"}

\* the positions, in the index that request r's applyCSSChange found, of the
\* files under its target path
InScope(r) ==
    {f \in 1..Len(req[r].index) :
        StartsWith(req[r].index[f].path, PathResolve(req[r].targetPath))}

\* the first of those files among the ones of greatest content length
FirstLargest(r) ==
    Min({f \in InScope(r) :
            \A g \in InScope(r) :
                Len(req[r].index[g].content) <= Len(req[r].index[f].content)})

\* C14: a creation writes to the indexed file under the target path with the
\* greatest content length, the first in insertion order among equals; only
\* when no file under the target path is indexed (an empty indexed file counts
\* as one) is <targetPath>/main.css written with the header comment, and it
\* is indexed before the rule is appended.
C14_TargetFileChoice ==
    \A r \in Req : Creating(r) =>
        IF InScope(r) # {}
        THEN /\ Writing(r)
             /\ req[r].file = req[r].index[FirstLargest(r)].path
             /\ req[r].base = req[r].index[FirstLargest(r)].content
        ELSE /\ req[r].file = PathJoin(PathResolve(req[r].targetPath), MainCssName)
             /\ Writing(r) =>
                   /\ req[r].base = MainCssHeader
                   /\ MapHas(cssFiles, req[r].file)

\* request r carries both required fields
ValidBody(r) ==
    /\ req[r].kind = "apply"
    /\ req[r].body[1].selectorVariations # None
    /\ req[r].body[1].changes # None

\* applyCSSChange of request r ran, and findBestMatch returned no match
ScorerMissed(r) ==
    /\ ValidBody(r)
    /\ req[r].pc \notin {"idle", "load", "scan"}
    /\ PathResolve(req[r].targetPath) \in Dirs
    /\ findBestMatch(req[r].body[1].selectorVariations[1], req[r].body[1].classList,
                     req[r].targetPath, req[r].index) = None

\* C15: when findBestMatch returns no match for a valid request and no file
\* operation fails, the request appends one rule block to the target file:
\* the previous content is a prefix of the new content, the rules it held are
\* parsed as before and one rule follows them; the answer is success with
\* created: true, never a failure.
C15_MissAppendsOneRule ==
    \A r \in Req : (ScorerMissed(r) /\ faults = 0) =>
        /\ req[r].pc # "done" => Creating(r)
        /\ Writing(r) =>
              LET old == parseCSS(req[r].base)
                  new == parseCSS(req[r].content)
              IN  /\ StartsWith(req[r].content, req[r].base)
                  /\ Len(new) = Len(old) + 1
                  /\ SubSeq(new, 1, Len(old)) = old
        /\ req[r].pc = "done" =>
              /\ req[r].result[1].success
              /\ req[r].result[1].created

\* a request whose scorer missed has appended its rule to a file that held
\* rules already, and has answered
C15_Witness ==
    \E r \in Req :
        /\ ScorerMissed(r)
        /\ faults = 0
        /\ req[r].pc = "done"
        /\ req[r].result[1].created
        /\ Len(parseCSS(disk[req[r].result[1].fullPath])) > 1

\* C16: the rule block appended by a creation starts with the request's
\* original selector, and the `selector` of the answer is that selector,
\* whatever class list the request carries.
C16_CreatedSelectorIsOriginal ==
    \A r \in Req :
        /\ (Creating(r) /\ Writing(r)) =>
              StartsWith(WrittenBlock(r),
                         <<"\n", "\n">> \o req[r].body[1].selector \o <<" ", "{">>)
        /\ (/\ req[r].kind = "apply"
            /\ req[r].pc = "done"
            /\ req[r].result[1].created) =>
              req[r].result[1].selector = req[r].body[1].selector

\* request r has answered that a write of a stylesheet failed
WriteFailed(r) ==
    /\ req[r].kind = "apply"
    /\ req[r].pc = "done"
    /\ req[r].result[1].error = "EIO"

\* C19 as stated: after a failed write of an update or of a creation the
\* answer is a failure that carries the error, and the index is what it was
\* when the applyCSSChange call began.
C19_IndexAsBeforeCall ==
    \A r \in Req : WriteFailed(r) =>
        /\ ~req[r].result[1].success
        /\ cssFiles = req[r].index

\* C19, amended: when a write of an update or of a creation fails, the answer
\* is a failure that carries the error, and the index is what it was just
\* before the failing write; an entry made earlier in the same call for a
\* synthesized main.css stays.
C19_IndexAsBeforeWrite ==
    [][\A r \in Req :
          (/\ req[r].pc \in {"write", "writing", "mkwrite", "mkwriting"}
           /\ req'[r].pc = "done"
           /\ req'[r].result[1].error = "EIO") =>
              /\ ~req'[r].result[1].success
              /\ cssFiles' = cssFiles]_vars

\* the write of a rule has failed for a request while the index holds files
C19_Witness ==
    \E r \in Req :
        /\ WriteFailed(r)
        /\ req[r].result[1].status = 200
        /\ cssFiles # <<>>

\* request r lacks `selectorVariations` or lacks `changes`
InvalidBody(r) ==
    /\ req[r].kind = "apply"
    /\ \/ req[r].body[1].selectorVariations = None
       \/ req[r].body[1].changes = None

\* C20: a request that lacks `selectorVariations` or `changes` is answered
\* with a failure, and no file-system operation is performed for it: its
\* handler never stands past the stat of a root, a directory listing, a file
\* read or a file write, whatever the index holds.
C20_InvalidRejectedBeforeIO ==
    \A r \in Req : InvalidBody(r) =>
        /\ req[r].pc \notin {"scan", "mkwrite", "mkwriting", "mkread", "write",
                           "writing", "read"}
        /\ req[r].pc = "done" => ~req[r].result[1].success

-----------------------------------------------------------------------------
(* Properties of the parser and of updateExistingRule (specification SpecRule) *)

\* C17: for a well-formed text x of a single rule, parsing x, serializing the
\* parsed rule as updateExistingRule does and parsing the result gives one
\* rule with the selector and the properties (names, values, order) of
\* parse(x).
C17_ReparseIdempotent ==
    (call # None /\ call[1].kind = "reparse" /\ ret # None) =>
        LET parsed == parseCSS(call[1].text)
        IN  /\ Len(parsed) = 1
            /\ Len(ret[1]) = 1
            /\ ret[1][1].selector = parsed[1].selector
            /\ ret[1][1].properties = parsed[1].properties

\* a text of two declarations, written otherwise than the serialization
\* writes it, has been parsed, serialized and parsed again
C17_Witness ==
    /\ call # None /\ call[1].kind = "reparse" /\ ret # None
    /\ Len(parseCSS(call[1].text)[1].properties) = 2
    /\ Serialize(parseCSS(call[1].text)[1]) # call[1].text
    /\ parseCSS(call[1].text)[1].selector # call[1].text

\* C18: updateExistingRule called for a match whose file has no entry in the
\* index returns a failure, without reaching its write and with the index as
\* it was.
C18_MissingEntryFails ==
    (/\ call # None /\ call[1].kind = "update" /\ ret # None
     /\ ~MapHas(cssFiles, call[1].match.filePath)) =>
        /\ ret[1].pc = "done"
        /\ ~ret[1].result[1].success
        /\ ret[1].content = <<>>
        /\ cssFiles = RuleIndex
        /\ disk = [f \in {FileA} |-> ContentA]

\* updateExistingRule has returned for a match whose file is not in the index
C18_Witness ==
    /\ call # None /\ call[1].kind = "update" /\ ret # None
    /\ ~MapHas(cssFiles, call[1].match.filePath)
    /\ ret[1].result # None
    /\ ret[1].result[1].error = "File data not found"

-----------------------------------------------------------------------------
(* Loading: configurations and calls of ensureCSSFilesLoaded made one      *)
(* after another on a tree with subdirectories, with listings and reads    *)
(* that fail and files deleted from outside (specification SpecLoad)       *)

FileRA  == RootR \o <<"/","a",".","c","s","s">>
FileRN  == RootR \o <<"/","n",".","j","s">>
FileRSB == DirRS \o <<"/","b",".","c","s","s">>
FileRX  == DirRDist \o <<"/","x",".","c","s","s">>
FileRSY == DirRSDist \o <<"/","y",".","c","s","s">>

\* /r: a.css, n.js, s/b.css, dist/x.css, s/dist/y.css, and the empty e/
LoadTree ==
    [f \in {FileRA, FileRN, FileRSB, FileRX, FileRSY} |->
        IF f = FileRA THEN <<".","a","{","c",":","r","}">>
        ELSE IF f = FileRN THEN <<"x">>
        ELSE IF f = FileRSB THEN <<".","b","{","m",":","0","}">>
        ELSE IF f = FileRX THEN <<".","x","{","c",":","r","}">>
        ELSE <<".","y","{","c",":","r","}">>]

\* the files that are deleted from outside
Deletable == {FileRA, FileRSB}

\* req.body of POST /set-project-configuration: a root (once with a trailing
\* slash), a root with a mapping, a root and another active path, a root that
\* does not exist, and a root that is a file
LoadConfigs ==
    {[projectPath |-> RootR \o <<"/">>, domainMappings |-> <<>>, activePath |-> <<>>],
     [projectPath |-> DirRS, domainMappings |-> << <<<<"h">>, RootR>> >>,
      activePath |-> <<>>],
     [projectPath |-> RootR, domainMappings |-> <<>>, activePath |-> DirRE],
     [projectPath |-> <<"/","x">>, domainMappings |-> <<>>, activePath |-> <<>>],
     [projectPath |-> FileRA, domainMappings |-> <<>>, activePath |-> <<>>]}

\* the target paths ensureCSSFilesLoaded is called with
EnsureTargets == {RootR, DirRS, DirRE, DirRDist, <<"/","x">>}

InitLoad ==
    /\ disk = LoadTree
    /\ cssFiles = <<>>
    /\ projectPath = <<>>
    /\ domainMappings = <<>>
    /\ req = [r \in Req |-> IdleRequest]
    /\ faults = 0
    /\ received = 0
    /\ call = KeepHistory
    /\ ret = None
    /\ processor = IdleProcessor("first")

\* no handler is running: the calls are made one after another
AllFree == \A o \in Req : IsFree(o)

\* ensureCSSFilesLoaded(targetPath), called on its own, up to its return or
\* to the first awaited file operation
EnsureLoaded(r, targetPath) ==
    /\ AllFree
    /\ MayReceive(r)
    /\ LET q == [IdleRequest EXCEPT !.kind = "ensure", !.targetPath = targetPath,
                                    !.index = IndexSeen, !.after = AnsweredBefore(r)]
       IN  req' = [req EXCEPT ![r] =
                IF hasFilesForPath(cssFiles, targetPath)
                THEN Respond(q, Success(<<>>, <<>>, <<>>, FALSE))
                ELSE [q EXCEPT !.pc = "load", !.todo = <<PathResolve(targetPath)>>]]
    /\ UNCHANGED <<processor, disk, cssFiles, projectPath, domainMappings, faults, call,
                   ret>>

\* POST /set-project-configuration, received while no handler is running
ConfigureCall(r, cfg) == AllFree /\ ReceiveConfigure(r, cfg)

\* scanDirectory: fs.readdir fails; the error is logged and dropped, and the
\* scan goes on with the rest of the parent directory
ScanReaddirFail(r) ==
    /\ req[r].pc = "scan"
    /\ req[r].todo # <<>>
    /\ req[r].todo[1] \in Dirs
    /\ faults < MaxFaults
    /\ faults' = faults + 1
    /\ LET q == [req[r] EXCEPT !.pc = "scan", !.todo = Tail(req[r].todo)]
       IN  req' = [req EXCEPT ![r] =
                      IF q.todo = <<>> THEN AfterLoad(q, cssFiles) ELSE q]
    /\ UNCHANGED <<processor, disk, cssFiles, projectPath, domainMappings, received,
                   call, ret>>

\* a file is deleted by another program, between two calls
ExternalDelete(f) ==
    /\ AllFree
    /\ f \in DOMAIN disk
    /\ disk' = [g \in DOMAIN disk \ {f} |-> disk[g]]
    /\ UNCHANGED <<processor, cssFiles, projectPath, domainMappings, req, faults, received,
                   call, ret>>

NextLoad ==
    \/ \E r \in Req :
          \/ \E cfg \in LoadConfigs : ConfigureCall(r, cfg)
          \/ \E targetPath \in EnsureTargets : EnsureLoaded(r, targetPath)
          \/ LoadRootFail(r)
          \/ StatOk(r)
          \/ ScanReaddir(r)
          \/ ScanReaddirFail(r)
          \/ ReadFileStat(r)
          \/ ReadFileRead(r)
          \/ ScanLoadOk(r)
          \/ ScanLoadFail(r)
    \/ \E f \in Deletable : ExternalDelete(f)

SpecLoad == InitLoad /\ [][NextLoad]_vars

-----------------------------------------------------------------------------
(* Properties of loading (specification SpecLoad)                          *)

\* handler r takes up a call of ensureCSSFilesLoaded in this step
EnsureBegins(r) ==
    /\ received' = received + 1
    /\ req'[r] # req[r]
    /\ req'[r].kind = "ensure"

\* request r is a call of ensureCSSFilesLoaded that has returned and that
\* followed, with nothing in between, a call for the same target path
EnsuredAgain(r) ==
    /\ req[r].kind = "ensure"
    /\ req[r].pc = "done"
    /\ req[r].after = <<"ensure", req[r].targetPath>>

\* C22: a call of ensureCSSFilesLoaded returns at once, without a scan and
\* with the index and the disk as they were, when some cached path starts
\* with the resolved target path, and otherwise starts the load of the
\* resolved target path; and a second call for the same path, made right
\* after the first while no file operation fails, leaves the index as the
\* first call left it.
C22_EnsureLoadedIdempotent ==
    /\ [][\A r \in Req : EnsureBegins(r) =>
            LET resolvedPath == PathResolve(req'[r].targetPath)
            IN  IF \E i \in 1..Len(cssFiles) : StartsWith(cssFiles[i].path, resolvedPath)
                THEN /\ req'[r].pc = "done"
                     /\ cssFiles' = cssFiles
                     /\ disk' = disk
                ELSE /\ req'[r].pc = "load"
                     /\ req'[r].todo = <<resolvedPath>>
                     /\ cssFiles' = cssFiles]_vars
    /\ [](\A r \in Req :
            (EnsuredAgain(r) /\ faults = 0) => cssFiles = req[r].index)

\* a second call for a directory without stylesheets has scanned it again
\* and returned, with files of another directory in the index
C22_Witness ==
    \E r \in Req :
        /\ EnsuredAgain(r)
        /\ faults = 0
        /\ disk = LoadTree
        /\ PathResolve(req[r].targetPath) \in Dirs
        /\ ~hasFilesForPath(cssFiles, req[r].targetPath)
        /\ req[r].result[1].success

\* the pieces of s between the occurrences of the character c
RECURSIVE SplitOn(_, _)
SplitOn(s, c) ==
    LET at == {i \in 1..Len(s) : s[i] = c}
    IN  IF at = {} THEN <<s>>
        ELSE <<SubSeq(s, 1, Min(at) - 1)>> \o SplitOn(SubSeq(s, Min(at) + 1, Len(s)), c)

\* path f lies below the directory root
Below(f, root) == StartsWith(f, root \o <<"/">>)

\* the names of the directories on the way from root down to the file f
DirsBetween(f, root) ==
    LET parts == SplitOn(SubSeq(f, Len(root) + 2, Len(f)), "/")
    IN  {parts[i] : i \in 1..(Len(parts) - 1)}

\* f lies below root inside a directory whose name is on the deny-list
Denied(f, root) == Below(f, root) /\ DirsBetween(f, root) \cap DenyList # {}

\* request r has returned from a load of the directory tree of LoadedRoot(r):
\* a configuration, or a call of ensureCSSFilesLoaded that found no cached
\* path under its target
LoadedRoot(r) == PathResolve(req[r].targetPath)
HasLoaded(r) ==
    /\ req[r].pc = "done"
    /\ req[r].result[1].success
    /\ \/ req[r].kind = "config" /\ req[r].targetPath # <<>>
       \/ req[r].kind = "ensure" /\ ~hasFilesForPath(req[r].index, req[r].targetPath)

\* C23 as stated: after the load of root R, when no file operation has
\* failed, every file on disk below R whose name ends in .css and that is not
\* inside a deny-listed directory has an entry; and the index holds no entry
\* for a file inside a deny-listed directory at any depth below R.
C23_NoDeniedFileIndexed ==
    \A r \in Req : HasLoaded(r) =>
        /\ faults = 0 =>
              \A f \in DOMAIN disk :
                  (/\ Below(f, LoadedRoot(r))
                   /\ EndsWith(Basename(f), CssSuffix)
                   /\ ~Denied(f, LoadedRoot(r))) => MapHas(cssFiles, f)
        /\ \A i \in 1..Len(cssFiles) : ~Denied(cssFiles[i].path, LoadedRoot(r))

\* C23, amended: after the load of root R, when no file operation has failed,
\* every file on disk below R whose name ends in .css and that is not inside
\* a deny-listed directory has an entry with its content; and the load has
\* added no entry for a file inside a deny-listed directory at any depth
\* below R: such an entry is there only if an earlier load, of a root inside
\* that directory, put it there.
C23_ScanHonoursDenyList ==
    \A r \in Req : HasLoaded(r) =>
        /\ faults = 0 =>
              \A f \in DOMAIN disk :
                  (/\ Below(f, LoadedRoot(r))
                   /\ EndsWith(Basename(f), CssSuffix)
                   /\ ~Denied(f, LoadedRoot(r))) =>
                      /\ MapHas(cssFiles, f)
                      /\ MapGet(cssFiles, f).content = disk[f]
        /\ \A i \in 1..Len(cssFiles) :
              Denied(cssFiles[i].path, LoadedRoot(r)) =>
                  MapHas(req[r].index, cssFiles[i].path)

\* the load of /r has returned: a.css and s/b.css are indexed, while
\* dist/x.css and s/dist/y.css are on disk without an entry
C23_Witness ==
    \E r \in Req :
        /\ HasLoaded(r)
        /\ LoadedRoot(r) = RootR
        /\ faults = 0
        /\ MapHas(cssFiles, FileRA) /\ MapHas(cssFiles, FileRSB)
        /\ {FileRX, FileRSY} \subseteq DOMAIN disk
        /\ ~MapHas(cssFiles, FileRX) /\ ~MapHas(cssFiles, FileRSY)

\* the stylesheets on disk that a scan of root is to index
Indexable(root) ==
    {f \in DOMAIN disk :
        Below(f, root) /\ EndsWith(Basename(f), CssSuffix) /\ ~Denied(f, root)}

\* the files of Indexable(root) without an entry are accounted for by the
\* failed operations: each is one of at most `faults` files whose read
\* failed, or lies in one of at most `faults` directories whose listing failed
MissingOnlyByFailure(root) ==
    LET missing == {f \in Indexable(root) : ~MapHas(cssFiles, f)}
    IN  \E failed \in SUBSET (missing \cup Dirs) :
            /\ Cardinality(failed) <= faults
            /\ \A f \in missing :
                  f \in failed \/ \E dir \in failed \cap Dirs : Below(f, dir)

\* the scan of request r goes on after the entry at the head of its work
\* list: with the rest of the list, or to the end of the load
ScanGoesOn(r) ==
    IF Tail(req[r].todo) # <<>>
    THEN req'[r].pc = "scan" /\ req'[r].todo = Tail(req[r].todo)
    ELSE req'[r].pc = "done" /\ req'[r].result[1].success

\* C24: during a scan, the failure to read a file or to list a subdirectory
\* does not abort the scan, and the file that failed has no entry in the
\* index afterwards; after the load, every stylesheet of the tree has an
\* entry except those whose read, or whose directory's listing, failed.
C24_FailedFileNotIndexed ==
    /\ [][\A r \in Req :
            (/\ req[r].kind \in {"config", "ensure"}
             /\ req[r].pc = "scan"
             /\ faults' = faults + 1) =>
                /\ ScanGoesOn(r)
                /\ req[r].todo[1] \notin Dirs => ~MapHas(cssFiles', req[r].todo[1])]_vars
    /\ [](\A r \in Req : HasLoaded(r) => MissingOnlyByFailure(LoadedRoot(r)))

\* C25: a configuration whose root does not exist or is not a directory is
\* answered with a failure that carries the error, and so is a configuration
\* whose root directory cannot be listed; none of them is answered with
\* success.
C25_BadRootFailsConfigure ==
    /\ [](\A r \in Req :
            (/\ req[r].kind = "config"
             /\ req[r].pc = "done"
             /\ req[r].targetPath # <<>>
             /\ LoadedRoot(r) \notin Dirs) =>
                /\ ~req[r].result[1].success
                /\ req[r].result[1].error # "")
    /\ [][\A r \in Req :
            (/\ req[r].kind = "config"
             /\ req[r].pc = "scan"
             /\ req[r].todo = <<LoadedRoot(r)>>
             /\ faults' = faults + 1) =>
                /\ req'[r].pc = "done"
                /\ ~req'[r].result[1].success]_vars

\* the path a configuration asks to load: activePath, else projectPath
ActivePath(cfg) == IF cfg.activePath # <<>> THEN cfg.activePath ELSE cfg.projectPath

\* request r is a configuration that was answered with success
Configured(r) ==
    /\ req[r].kind = "config"
    /\ req[r].pc = "done"
    /\ req[r].result[1].success

\* C26: after a configuration answered with success, the root in effect is
\* the resolved projectPath of the request and the mapping table is the one
\* of the request (empty when the request has none): nothing of an earlier
\* configuration remains; and the load of the request's active path was
\* started when the request was received and has ended before the answer, so
\* that, when no file operation failed, every stylesheet below the active
\* path is indexed.
C26_ConfigureResets ==
    /\ [](\A r \in Req : Configured(r) =>
            /\ projectPath = PathResolve(req[r].body[1].projectPath)
            /\ domainMappings = req[r].body[1].domainMappings
            /\ faults = 0 =>
                  \A f \in Indexable(PathResolve(ActivePath(req[r].body[1]))) :
                      MapHas(cssFiles, f))
    /\ [][\A r \in Req :
            /\ (received' = received + 1 /\ req'[r] # req[r]
                    /\ req'[r].kind = "config") =>
                  /\ req'[r].pc = "load"
                  /\ req'[r].todo = <<PathResolve(ActivePath(req'[r].body[1]))>>
            /\ (req'[r] # req[r] /\ Configured(r)') =>
                  req[r].kind = "config" /\ req[r].pc \in {"load", "scan"}]_vars

\* the configuration of /r, without mappings, was answered with success
\* right after the configuration of /r/s with a mapping: the root is /r, the
\* table is empty and /r/a.css is indexed
C26_Witness ==
    \E r \in Req :
        /\ Configured(r)
        /\ req[r].after = <<"config", DirRS>>
        /\ req[r].body[1].projectPath = RootR \o <<"/">>
        /\ projectPath = RootR
        /\ domainMappings = <<>>
        /\ MapHas(cssFiles, FileRA)

\* C27: when a rescan of a root has ended without a failed file operation,
\* every file below the root that was deleted from outside before the rescan
\* began has no entry in the index any more: the entries below the root are
\* entries of files on disk.
C27_RescanDropsDeleted ==
    [][\A r \in Req :
          (/\ req[r].kind = "config"
           /\ req[r].pc \in {"load", "scan"}
           /\ req'[r].pc = "done"
           /\ req'[r].result[1].success
           /\ faults' = 0) =>
              \A i \in 1..Len(cssFiles') :
                  Below(cssFiles'[i].path, LoadedRoot(r)) =>
                      cssFiles'[i].path \in DOMAIN disk']_vars

-----------------------------------------------------------------------------
(* The agent answering any request body, malformed ones included, with     *)
(* every awaited file operation settling (specification SpecAnswer)        *)

\* .b: color null, under /p (an update), and under /pq/ (a creation)
BodyNullUpdate ==
    enhanceChangeData(<<".","b">>, << <<"b">> >>,
                      << <<<<"c">>, NullChange>> >>, <<>>, RootP)
BodyNullCreate ==
    enhanceChangeData(<<".","b">>, << <<"b">> >>,
                      << <<<<"c">>, NullChange>> >>, <<>>, RootPQ \o <<"/">>)
\* selectorVariations: [] (an array without elements is truthy)
BodyEmptyVariations == [BodyUpdateB EXCEPT !.selectorVariations = Some(<<>>)]

ApplyBodiesAny ==
    ApplyBodiesWide \cup {BodyNullUpdate, BodyNullCreate, BodyEmptyVariations}

\* the steps of the handler of request r after the request was received
Handler(r) ==
    \/ LoadRootFail(r)
    \/ StatOk(r)
    \/ ScanReaddir(r)
    \/ ReadFileStat(r)
    \/ ReadFileRead(r)
    \/ ScanLoadOk(r)
    \/ ScanLoadFail(r)
    \/ MainWriteOpen(r)
    \/ MainWriteOk(r)
    \/ MainWriteFail(r)
    \/ MainLoadOk(r)
    \/ MainLoadFail(r)
    \/ WriteOpen(r)
    \/ WriteOk(r)
    \/ WriteFail(r)
    \/ ReloadOk(r)
    \/ ReloadFail(r)

NextAnswer ==
    \E r \in Req :
        \/ \E body \in ApplyBodiesAny : ReceiveApply(r, body)
        \/ \E cfg \in ConfigBodies : ReceiveConfigure(r, cfg)
        \/ Handler(r)

SpecAnswer == InitApply /\ [][NextAnswer]_vars

\* request r is an apply request whose handler has not answered yet
Pending(r) == req[r].kind = "apply" /\ req[r].pc \notin {"idle", "done"}

\* request r is an apply request that was answered
Answered(r) == req[r].kind = "apply" /\ req[r].pc = "done"

\* the response carries success: true, or success: false and an error text
WellFormedAnswer(result) ==
    /\ result # None
    /\ \/ result[1].success /\ result[1].error = ""
       \/ ~result[1].success /\ result[1].error # ""

\* the operation the handler of request r awaits can settle, with a value or
\* with an error: the handler has a next step
CanSettle(r) ==
    CASE req[r].pc = "load"    -> req[r].todo # <<>>
      [] req[r].pc = "scan"    -> req[r].todo # <<>>
      [] req[r].pc = "mkwrite" -> req[r].file # <<>>
      [] req[r].pc = "mkwriting" -> req[r].file # <<>>
      [] req[r].pc = "writing" -> req[r].file # <<>>
      [] req[r].pc = "mkread"  -> req[r].file # <<>>
      [] req[r].pc = "write"   -> req[r].file # <<>>
      [] req[r].pc = "read"    -> req[r].file # <<>>
      [] OTHER                 -> FALSE

\* the number of awaited operations a scan with work list `todo` still has
RECURSIVE ScanWork(_, _)
ScanWork(todo, d) ==
    IF todo = <<>> THEN 0
    ELSE (IF todo[1] \in Dirs
          THEN 1 + ScanWork(CHOOSE o \in Orders(ScanEntries(todo[1], d)) : TRUE, d)
          ELSE 1)
         + ScanWork(Tail(todo), d)

\* the file operations (a stat, a listing, a write, a whole read) the
\* handler in state q still has, at most
StagesLeft(q, d) ==
    CASE q.pc = "load"             -> 8 + ScanWork(q.todo, d)
      [] q.pc = "scan"             -> 7 + ScanWork(q.todo, d)
      [] q.pc = "mkwrite"          -> 6
      [] q.pc = "mkwriting"        -> 5
      [] q.pc = "mkread"           -> 4
      [] q.pc = "write"            -> 3
      [] q.pc = "writing"          -> 2
      [] q.pc = "read"             -> 1
      [] OTHER                     -> 0

\* the steps the fs.readFile of the handler in state q still has, at most:
\* taking the size, one read and the close, or a read for every character of
\* the file not read yet, the read that returns nothing and the close
ReadsLeft(q, d) ==
    IF ~Reading(q) THEN 0
    ELSE IF q.size = None THEN 3
    ELSE IF q.eof THEN 1
    ELSE IF q.size[1] > 0 \/ ReadTarget(q) \notin DOMAIN d THEN 2
    ELSE 2 + Len(SubstringFrom(d[ReadTarget(q)], Len(q.got)))

\* a bound on the awaited operations the handler in state q still has (no
\* file of the model holds a hundred characters)
OperationsLeft(q, d) == 100 * StagesLeft(q, d) + ReadsLeft(q, d)

\* C21: every apply request, whatever its body (an empty variation list and a
\* null change value included), whatever the index holds and whichever file
\* operation fails, ends with a response: the handler stands at an awaited
\* file operation that can settle or has responded (no exception leaves it),
\* a response is success: true or success: false with an error text, and
\* every step of a handler lowers the number of operations it still has, so
\* that no request stays without a response.
C21_EveryRequestAnswered ==
    /\ [](\A r \in Req :
            /\ req[r].pc \in {"idle", "load", "scan", "mkwrite", "mkwriting",
                              "mkread", "write", "writing",
                              "read", "done"}
            /\ Pending(r) => CanSettle(r)
            /\ Answered(r) => WellFormedAnswer(req[r].result))
    /\ [][\A r \in Req :
            (Pending(r) /\ req'[r] # req[r]) =>
                OperationsLeft(req'[r], disk') < OperationsLeft(req[r], disk)]_vars

\* a request with a null change value found no rule, had main.css written and
\* indexed, and was answered with the TypeError that createNewRule caught
C21_Witness ==
    \E r \in Req :
        /\ Answered(r)
        /\ req[r].body[1] = BodyNullCreate
        /\ ~req[r].result[1].success
        /\ req[r].result[1].error = "TypeError"
        /\ MapHas(cssFiles, PathJoin(RootPQ, MainCssName))

-----------------------------------------------------------------------------
(* The extension's change queue (specification SpecQueue)                  *)

MaxChanges == 4         \* CSS_CHANGE_DETECTED messages that arrive

\* what a CSS_CHANGE_DETECTED message carries: the data of a change to .a, of
\* a change to .b, and data with no selector (or one that is null or no
\* string); classList is an array
ChangeData ==
    {[selector |-> Some(<<".","a">>), classList |-> << <<"a">> >>],
     [selector |-> Some(<<".","b">>), classList |-> << <<"b">> >>],
     [selector |-> None, classList |-> << <<"a">> >>]}

\* enhanceChangeData throws: generateSelectorVariations calls selector.match,
\* a TypeError when the data holds no string under `selector`
EnhanceThrows(changeData) == changeData.selector = None

\* the variables of the agent, which the extension never touches
agentVars == <<disk, cssFiles, projectPath, domainMappings, req, faults,
               received, call, ret>>

\* A call of processQueue takes the next change off the queue and runs
\* sendChangeToServer as far as its fetch; worker i is that call (a new one
\* when i is past the last).  When enhanceChangeData throws no request is
\* issued: the catch of sendChangeToServer returns and the call waits out
\* its delay.
StartSend(p, i) ==
    LET change == Head(p.changeQueue)
        throws == EnhanceThrows(change)
        worker == [pc |-> IF throws THEN "delay" ELSE "fetch", change |-> change]
    IN  [p EXCEPT !.changeQueue = Tail(@),
                  !.workers = IF i > Len(@) THEN Append(@, worker)
                              ELSE [@ EXCEPT ![i] = worker],
                  !.shifted = Append(@, change),
                  !.sent = IF throws THEN @ ELSE Append(@, change)]

\* processQueue as far as its first await
processQueue(p) ==
    IF Len(p.changeQueue) = 0 \/ (p.version = "fixed" /\ p.isProcessing)
    THEN p
    ELSE StartSend([p EXCEPT !.isProcessing = TRUE], Len(p.workers) + 1)

\* a faulty variant: the queue is processed whether or not it already is
processCSSChangeAlways(p, changeData) ==
    processQueue([p EXCEPT !.changeQueue = Append(@, changeData),
                           !.enqueued = Append(@, changeData)])

\* processCSSChange as far as its first await
processCSSChange(p, changeData) ==
    LET q == [p EXCEPT !.changeQueue = Append(@, changeData),
                       !.enqueued = Append(@, changeData)]
    IN  IF ~q.isProcessing THEN processQueue(q) ELSE q

\* the sequence s without its element i
WithoutWorker(s, i) ==
    [j \in 1..(Len(s) - 1) |-> IF j < i THEN s[j] ELSE s[j + 1]]

InitQueue ==
    /\ disk = DiskOf({FileA, FileB})
    /\ cssFiles = <<>>
    /\ projectPath = <<>>
    /\ domainMappings = <<>>
    /\ req = [r \in Req |-> IdleRequest]
    /\ faults = 0
    /\ received = 0
    /\ call = None
    /\ ret = None
    /\ processor \in {IdleProcessor(v) : v \in {"first", "fixed"}}

\* a CSS_CHANGE_DETECTED message arrives
ChangeDetected(changeData) ==
    /\ Len(processor.enqueued) < MaxChanges
    /\ processor' = processCSSChange(processor, changeData)
    /\ UNCHANGED agentVars

\* the agent's response arrives: sendChangeToServer goes on to read its body
FetchResponds(i) ==
    /\ i \in 1..Len(processor.workers)
    /\ processor.workers[i].pc = "fetch"
    /\ processor' = [processor EXCEPT !.workers[i].pc = "json"]
    /\ UNCHANGED agentVars

\* the request fails, or is aborted after ten seconds: sendChangeToServer
\* returns from its catch and the worker waits out its delay
FetchFails(i) ==
    /\ i \in 1..Len(processor.workers)
    /\ processor.workers[i].pc = "fetch"
    /\ processor' = [processor EXCEPT !.workers[i].pc = "delay"]
    /\ UNCHANGED agentVars

\* the body of the response is read, or reading it fails: sendChangeToServer
\* returns and the worker waits out its delay
BodyRead(i) ==
    /\ i \in 1..Len(processor.workers)
    /\ processor.workers[i].pc = "json"
    /\ processor' = [processor EXCEPT !.workers[i].pc = "delay"]
    /\ UNCHANGED agentVars

\* a faulty variant: the call ends after one change, whatever the queue holds
DelayOverOnce(i) ==
    /\ i \in 1..Len(processor.workers)
    /\ processor.workers[i].pc = "delay"
    /\ processor' = [processor EXCEPT !.isProcessing = FALSE,
                                      !.workers = WithoutWorker(@, i)]
    /\ UNCHANGED agentVars

\* the delay is over: the loop of processQueue takes the next change, or ends
DelayOver(i) ==
    /\ i \in 1..Len(processor.workers)
    /\ processor.workers[i].pc = "delay"
    /\ processor' =
          IF Len(processor.changeQueue) > 0 THEN StartSend(processor, i)
          ELSE [processor EXCEPT !.isProcessing = FALSE,
                                 !.workers = WithoutWorker(@, i)]
    /\ UNCHANGED agentVars

\* the calls of processQueue there can be at one time, at most
Workers == 1..MaxChanges

NextQueue ==
    \/ \E changeData \in ChangeData : ChangeDetected(changeData)
    \/ \E i \in Workers : FetchResponds(i)
    \/ \E i \in Workers : FetchFails(i)
    \/ \E i \in Workers : BodyRead(i)
    \/ \E i \in Workers : DelayOver(i)

SpecQueue == InitQueue /\ [][NextQueue]_vars

-----------------------------------------------------------------------------
(* Properties of the change queue (specification SpecQueue)                *)

\* the changes whose sendChangeToServer has not returned yet
InFlight(p) == SelectSeq(p.workers, LAMBDA w : w.pc \in {"fetch", "json"})

\* the changes of s for which a request can be made
Sendable(s) == SelectSeq(s, LAMBDA c : ~EnhanceThrows(c))

\* C28: changes are sent one at a time and in the order they were enqueued:
\* at any moment at most one request of the queue is in flight, the changes
\* taken off the queue so far followed by the changes still queued are the
\* changes in the order they arrived, the requests issued are those of the
\* changes taken, in that order, and a change is taken off the queue only
\* when no send is under way, however the arrivals interleave with the
\* worker's awaits.
C28_SentOneAtATimeInOrder ==
    /\ [](/\ Len(InFlight(processor)) <= 1
          /\ processor.shifted \o processor.changeQueue = processor.enqueued
          /\ processor.sent = Sendable(processor.shifted))
    /\ [][processor'.shifted # processor.shifted =>
              /\ InFlight(processor) = <<>>
              /\ Len(processor'.shifted) = Len(processor.shifted) + 1]_vars

\* changes arrived while the first was in flight, two different ones have
\* been sent, one after the delay of the other, a change without selector
\* was taken off the queue between them, and a further change waits in the
\* queue
C28_Witness ==
    /\ Len(processor.sent) = 2
    /\ Len(processor.shifted) = 3
    /\ EnhanceThrows(processor.shifted[2])
    /\ Len(processor.changeQueue) = 1
    /\ Len(InFlight(processor)) = 1
    /\ processor.sent[1] # processor.sent[2]

-----------------------------------------------------------------------------
(* calculateMatchScore on its own (specification SpecScore)                *)

\* rule selectors and target selectors: ".a", ".b", "a", "d .a", "d>.a",
\* ".a.b", ".ab", "d .a" written with a tab, two spaces and a trailing space,
\* ".a .a"
ScoreSelectors ==
    {<<".","a">>, <<".","b">>, <<"a">>, <<"d"," ",".","a">>,
     <<"d",">",".","a">>, <<".","a",".","b">>, <<".","a","b">>,
     <<"d","\t"," ",".","a"," ">>, <<".","a"," ",".","a">>}

\* class lists: the first classes of the pool, and one that repeats a class
ScoreClassLists == MatchClassLists \cup {<< <<"a">>, <<"a">> >>}

ScoreCalls ==
    {[cssSelector |-> s, targetSelector |-> t, classList |-> cl] :
        s \in ScoreSelectors, t \in ScoreSelectors, cl \in ScoreClassLists}

InitScore ==
    /\ disk = DiskOf({FileA, FileB})
    /\ cssFiles = <<>>
    /\ projectPath = <<>>
    /\ domainMappings = <<>>
    /\ req = [r \in Req |-> IdleRequest]
    /\ faults = 0
    /\ received = 0
    /\ call \in {Some(c) : c \in ScoreCalls}
    /\ ret = None
    /\ processor = IdleProcessor("first")

CalculateMatchScoreCall ==
    /\ call # None
    /\ ret = None
    /\ ret' = Some(calculateMatchScore(call[1].cssSelector,
                                       call[1].targetSelector,
                                       call[1].classList))
    /\ UNCHANGED <<processor, disk, cssFiles, projectPath, domainMappings, req,
                   faults, received, call>>

NextScore == CalculateMatchScoreCall

SpecScore == InitScore /\ [][NextScore]_vars

-----------------------------------------------------------------------------
(* Properties of calculateMatchScore (specification SpecScore)             *)

\* a selector normalized: runs of white space made one space, ends trimmed
Normalized(s) == Trim(CollapseSpaces(s))

\* s contains sub as a substring
Contains(s, sub) ==
    \E i \in 0..(Len(s) - Len(sub)) : SubSeq(s, i + 1, i + Len(sub)) = sub

TokenSeparators == {" ", ">", "+", "~"}

\* the tokens of s, as the spans <<first, last>> of its longest stretches
\* without a separator
TokenSpans(s) ==
    {sp \in (1..Len(s)) \X (1..Len(s)) :
        /\ sp[1] <= sp[2]
        /\ \A k \in sp[1]..sp[2] : s[k] \notin TokenSeparators
        /\ sp[1] = 1 \/ s[sp[1] - 1] \in TokenSeparators
        /\ sp[2] = Len(s) \/ s[sp[2] + 1] \in TokenSeparators}

\* the score before it is clamped, counted as the specification words it
RawScore(S, T, classList) ==
    LET s == Normalized(S)
        t == Normalized(T)
        classes == {i \in 1..Len(classList) : Contains(s, <<".">> \o classList[i])}
        tokens == {sp \in TokenSpans(t) :
                      \E sq \in TokenSpans(s) :
                          SubSeq(t, sp[1], sp[2]) = SubSeq(s, sq[1], sq[2])}
    IN  30 * Cardinality(classes) + 20 * Cardinality(tokens)
        - (IF Len(s) < 3 THEN 10 ELSE 0)

\* C29: for a rule selector S that differs from the target selector T the
\* score is 30 for every entry of classList that normalized S contains after
\* a dot, plus 20 for every token of normalized T that is a token of
\* normalized S, less 10 when normalized S is shorter than 3 characters, and
\* 0 where that sum is negative; the score is never negative.
C29_ScoreFormula ==
    ret # None =>
        /\ ret[1] >= 0
        /\ call[1].cssSelector # call[1].targetSelector =>
              ret[1] = Max({0, RawScore(call[1].cssSelector,
                                        call[1].targetSelector,
                                        call[1].classList)})

\* a short selector that shares nothing with the target: the sum is -10 and
\* the score returned is 0
C29_Witness ==
    /\ ret = Some(0)
    /\ call[1].cssSelector # call[1].targetSelector
    /\ RawScore(call[1].cssSelector, call[1].targetSelector,
                call[1].classList) = 0 - 10

-----------------------------------------------------------------------------
(* generateSelectorVariations on its own (specification SpecGenerate)      *)

\* selectors of change events: "div.a", "div", ".a", "#x", "d > .a", "h1.b",
\* "my-el.a" (a custom element), "*"
GenerateSelectors ==
    {<<"d","i","v",".","a">>, <<"d","i","v">>, <<".","a">>, <<"#","x">>,
     <<"d"," ",">"," ",".","a">>, <<"h","1",".","b">>,
     <<"m","y","-","e","l",".","a">>, <<"*">>}

\* class lists: the short ones, and those of an element with 9 and with
\* ManyClasses classes
ManyClasses == 11

ClassLetters == <<"a", "b", "c", "e", "f", "g", "h", "i", "j", "k", "l", "m">>

ClassesOf(n) == [i \in 1..n |-> <<ClassLetters[i]>>]

GenerateClassLists == MatchClassLists \cup {ClassesOf(9), ClassesOf(ManyClasses)}

GenerateCalls ==
    {[selector |-> s, classList |-> cl, version |-> v] :
        s \in GenerateSelectors, cl \in GenerateClassLists,
        v \in {"first", "fixed"}}

InitGenerate ==
    /\ disk = DiskOf({FileA, FileB})
    /\ cssFiles = <<>>
    /\ projectPath = <<>>
    /\ domainMappings = <<>>
    /\ req = [r \in Req |-> IdleRequest]
    /\ faults = 0
    /\ received = 0
    /\ call \in {Some(c) : c \in GenerateCalls}
    /\ ret = None
    /\ processor = IdleProcessor("first")

GenerateCall ==
    /\ call # None
    /\ ret = None
    /\ ret' = Some(IF call[1].version = "first"
                   THEN generateSelectorVariations(call[1].selector,
                                                   call[1].classList)
                   ELSE generateSelectorVariationsFixed(call[1].selector,
                                                        call[1].classList))
    /\ UNCHANGED <<processor, disk, cssFiles, projectPath, domainMappings, req,
                   faults, received, call>>

NextGenerate == GenerateCall

SpecGenerate == InitGenerate /\ [][NextGenerate]_vars

-----------------------------------------------------------------------------
(* Properties of generateSelectorVariations (specification SpecGenerate)   *)

\* the characters of a tag name: those of a word, and the hyphen of the
\* names of custom elements
TagNameChars == WordChars \cup {"-"}

\* the tag name a selector begins with, <<>> if it begins with none
TagName(selector) ==
    LET stops == {i \in 1..Len(selector) : selector[i] \notin TagNameChars}
    IN  IF stops = {} THEN selector ELSE SubSeq(selector, 1, Min(stops) - 1)

\* the variations hold the selector sel with the priority pr
HasVariation(variations, sel, pr) ==
    \E k \in 1..Len(variations) :
        variations[k].selector = sel /\ variations[k].priority = pr

\* C30: the variations come in the order of non-increasing priority and hold
\* the original selector with priority 1, for the class at index i of
\* classList the selector "." + class with priority 10 - i, and, where the
\* original selector begins with a tag name and classList is not empty, for
\* the class at index i the selector tag + "." + class with priority 8 - i.
C30_VariationsAsSpecified ==
    ret # None =>
        LET v == ret[1]
            classList == call[1].classList
            tag == TagName(call[1].selector)
        IN  /\ \A k \in 1..(Len(v) - 1) : v[k].priority >= v[k + 1].priority
            /\ HasVariation(v, call[1].selector, 1)
            /\ \A i \in 1..Len(classList) :
                  HasVariation(v, <<".">> \o classList[i], 10 - (i - 1))
            /\ (tag # <<>> /\ classList # <<>>) =>
                  \A i \in 1..Len(classList) :
                      HasVariation(v, tag \o <<".">> \o classList[i], 8 - (i - 1))

\* the variations of the type "combined_classes"
CombinedVariations(variations) ==
    SelectSeq(variations, LAMBDA x : x.type = "combined_classes")

\* C31: the combined variation, "." followed by all the classes joined by
\* ".", with priority 5, is among the variations exactly when classList has
\* more than one class; for one class there is no combined variation.
C31_CombinedIffSeveralClasses ==
    ret # None =>
        LET combined == CombinedVariations(ret[1])
            classList == call[1].classList
        IN  IF Len(classList) > 1
            THEN combined = <<[selector |-> <<".">> \o Join(classList, <<".">>),
                               priority |-> 5, type |-> "combined_classes"]>>
            ELSE combined = <<>>

\* C32: the original selector has the lowest priority of all the variations,
\* whatever the number of classes: no variation has a priority below 1, and
\* no variation ordered after the original has a lower priority than it.
C32_OriginalHasLowestPriority ==
    ret # None =>
        LET v == ret[1]
        IN  /\ \A k \in 1..Len(v) : v[k].priority >= 1
            /\ \A k, l \in 1..Len(v) :
                  (v[k].type = "original" /\ k < l) =>
                      v[l].priority >= v[k].priority

-----------------------------------------------------------------------------
(* panel.js: CSSDevToolsPanel.parseCSS                                     *)

\* cssText.replace(/\/\*[\s\S]*?\*\//g, ''): every comment, from "/*" to the
\* first "*/" after it, is taken out; a comment that never ends stays
RECURSIVE StripComments(_)
StripComments(s) ==
    LET opens == {i \in 1..(Len(s) - 1) : s[i] = "/" /\ s[i + 1] = "*"}
    IN  IF opens = {} THEN s
        ELSE LET o == Min(opens)
                 closes == {i \in (o + 2)..(Len(s) - 1) :
                               s[i] = "*" /\ s[i + 1] = "/"}
             IN  IF closes = {} THEN s
                 ELSE SubSeq(s, 1, o - 1)
                      \o StripComments(SubSeq(s, Min(closes) + 2, Len(s)))

\* ruleRegex = /([^{}]+)\{([^{}]*)\}/g applied from 1-based position `from`:
\* the leftmost position where a selector without braces, "{", a body
\* without braces (possibly empty) and "}" match
RECURSIVE PanelRuleMatchStart(_, _)
PanelRuleMatchStart(css, from) ==
    IF from > Len(css) THEN 0
    ELSE LET open == IndexOfAny(css, {"{", "}"}, from)
             close == IF open = 0 THEN 0
                      ELSE IndexOfAny(css, {"{", "}"}, open + 1)
         IN  IF open = 0 \/ close = 0 THEN 0
             ELSE IF open > from /\ css[open] = "{" /\ css[close] = "}"
                  THEN from
                  ELSE PanelRuleMatchStart(css, from + 1)

\* the loop over declarations.split(';')
RECURSIVE PanelDeclarations(_, _)
PanelDeclarations(declSplit, properties) ==
    IF declSplit = <<>> THEN properties
    ELSE LET decl == Head(declSplit)
             colon == IndexOfAny(decl, {":"}, 1)
             property == Trim(SubSeq(decl, 1, colon - 1))
             value == Trim(SubSeq(decl, colon + 1, Len(decl)))
             kept == /\ colon > 1
                     /\ property # <<>>
                     /\ value # <<>>
                     /\ ~StartsWith(property, <<"-","w","e","b","k","i","t","-">>)
                     /\ ~StartsWith(property, <<"-","m","o","z","-">>)
         IN  PanelDeclarations(Tail(declSplit),
                               IF kept THEN ObjSet(properties, property, value)
                               ELSE properties)

RECURSIVE PanelParseRules(_, _)
PanelParseRules(css, from) ==
    LET i == PanelRuleMatchStart(css, from)
    IN  IF i = 0 THEN <<>>
        ELSE LET open  == IndexOfAny(css, {"{"}, i)
                 close == IndexOfAny(css, {"}"}, open + 1)
                 selector     == Trim(SubSeq(css, i, open - 1))
                 declarations == Trim(SubSeq(css, open + 1, close - 1))
                 skipped == \/ selector = <<>>
                            \/ Includes(selector, <<"@">>)
                            \/ Includes(selector, <<"%">>)
                            \/ declarations = <<>>
                 properties == PanelDeclarations(SplitOn(declarations, ";"), <<>>)
                 rules == IF skipped \/ properties = <<>> THEN <<>>
                          ELSE <<[selector |-> selector, properties |-> properties]>>
             IN  rules \o PanelParseRules(css, close + 1)

panelParseCSS(cssText) ==
    PanelParseRules(Trim(CollapseSpaces(StripComments(cssText))), 1)

-----------------------------------------------------------------------------
(* The two parsers on their own (specification SpecParse)                  *)

MaxBlocks == 3          \* rule blocks in a stylesheet

\* rule blocks, each with the properties its declarations hold: ".a{}",
\* ".a{ }", ".b{x}", ".e{/*k*/}" hold none; ".b{c:r}" and ".e{m:0;}" hold one
ParseBlocks ==
    {[selector |-> <<".","a">>, body |-> <<>>, properties |-> <<>>],
     [selector |-> <<".","a">>, body |-> <<" ">>, properties |-> <<>>],
     [selector |-> <<".","b">>, body |-> <<"x">>, properties |-> <<>>],
     [selector |-> <<".","e">>, body |-> <<"/","*","k","*","/">>,
      properties |-> <<>>],
     [selector |-> <<".","b">>, body |-> <<"c",":","r">>,
      properties |-> << <<<<"c">>, <<"r">>>> >>],
     [selector |-> <<".","e">>, body |-> <<"m",":","0",";">>,
      properties |-> << <<<<"m">>, <<"0">>>> >>]}

BlockText(b) == b.selector \o <<"{">> \o b.body \o <<"}">>

\* the stylesheet made of the blocks, one after the other
RECURSIVE BlocksText(_)
BlocksText(blocks) ==
    IF blocks = <<>> THEN <<>>
    ELSE BlockText(Head(blocks)) \o BlocksText(Tail(blocks))

ParseCalls ==
    UNION {[1..n -> ParseBlocks] : n \in 1..MaxBlocks}

InitParse ==
    /\ disk = DiskOf({FileA, FileB})
    /\ cssFiles = <<>>
    /\ projectPath = <<>>
    /\ domainMappings = <<>>
    /\ req = [r \in Req |-> IdleRequest]
    /\ faults = 0
    /\ received = 0
    /\ call \in {Some([blocks |-> b, content |-> BlocksText(b)]) : b \in ParseCalls}
    /\ ret = None
    /\ processor = IdleProcessor("first")

ParseCall ==
    /\ call # None
    /\ ret = None
    /\ ret' = Some([indexed |-> parseCSS(call[1].content),
                    diffed  |-> panelParseCSS(call[1].content)])
    /\ UNCHANGED <<processor, disk, cssFiles, projectPath, domainMappings, req,
                   faults, received, call>>

NextParse == ParseCall

SpecParse == InitParse /\ [][NextParse]_vars

-----------------------------------------------------------------------------
(* Properties of the parsers (specification SpecParse)                     *)

\* the offset at which block i of the stylesheet begins
BlockStart(blocks, i) == Len(BlocksText(SubSeq(blocks, 1, i - 1)))

\* C33: for every block without a valid declaration, a block with nothing
\* between its braces included, the indexing parser returns a rule with the
\* block's selector, no properties and the offsets of the block, and a rule
\* with the right selector for every block that follows it; the parser of
\* the panel returns only rules with at least one property.
C33_EmptyRulesKeptByIndexing ==
    ret # None =>
        LET blocks == call[1].blocks
            indexed == ret[1].indexed
            diffed == ret[1].diffed
        IN  /\ \A i \in 1..Len(blocks) :
                  blocks[i].properties = <<>> =>
                      /\ \E k \in 1..Len(indexed) :
                            /\ indexed[k].selector = blocks[i].selector
                            /\ indexed[k].properties = <<>>
                            /\ indexed[k].startIndex = BlockStart(blocks, i)
                            /\ indexed[k].endIndex = BlockStart(blocks, i + 1)
                      /\ \A j \in (i + 1)..Len(blocks) :
                            \E k \in 1..Len(indexed) :
                                /\ indexed[k].selector = blocks[j].selector
                                /\ indexed[k].startIndex = BlockStart(blocks, j)
            /\ \A k \in 1..Len(diffed) : diffed[k].properties # <<>>

-----------------------------------------------------------------------------
(* The target path of a change (specification SpecTarget): configurations  *)
(* with and without a mapping, and changes with and without a domain and a *)
(* target path, received one after another over the tree of SpecLoad.      *)

\* a root with a mapping for the domain h, and a root without mappings
TargetConfigs ==
    {[projectPath |-> DirRS, domainMappings |-> << <<<<"h">>, RootR>> >>,
      activePath |-> <<>>],
     [projectPath |-> RootR, domainMappings |-> <<>>, activePath |-> <<>>]}

\* .a: color red -> green, from the domain h or g or from none, with the
\* target path /r/s or with none
TargetBodies ==
    {enhanceChangeData(<<".","a">>, << <<"a">> >>,
                       << <<<<"c">>, FromTo(<<"r">>, <<"g">>)>> >>, d, tp) :
        d \in {<<>>, <<"h">>, <<"g">>}, tp \in {<<>>, DirRS}}

\* POST /apply-css-change, received while no handler is running
ApplyCall(r, body) == AllFree /\ ReceiveApply(r, body)

NextTarget ==
    \E r \in Req :
        \/ \E cfg \in TargetConfigs : ConfigureCall(r, cfg)
        \/ \E body \in TargetBodies : ApplyCall(r, body)
        \/ StatOk(r)
        \/ ScanReaddir(r)
        \/ ReadFileStat(r)
        \/ ReadFileRead(r)
        \/ ScanLoadOk(r)
        \/ WriteOpen(r)
        \/ WriteOk(r)
        \/ ReloadOk(r)

SpecTarget == InitLoad /\ [][NextTarget]_vars

-----------------------------------------------------------------------------
(* Properties of the target path (specification SpecTarget)                *)

\* the mappings that name the domain of the event
MappingsFor(body, mappings) ==
    {i \in 1..Len(mappings) : body.domain # <<>> /\ mappings[i][1] = body.domain}

\* the root the specification prescribes for an event: the mapping of its
\* domain, else its own target path, else the configured root, else none
PrescribedRoot(body, mappings, root) ==
    IF MappingsFor(body, mappings) # {}
    THEN mappings[CHOOSE i \in MappingsFor(body, mappings) : TRUE][2]
    ELSE IF body.targetPath # <<>> THEN body.targetPath
    ELSE root

\* handler r has just received a change
ApplyBegins(r) ==
    /\ IsFree(r)
    /\ req'[r] # req[r]
    /\ req'[r].kind = "apply"

\* C34: the root a change is applied under is the mapping of the event's
\* domain where there is one, even if the event has a target path of its
\* own, else the event's target path, else the configured project path;
\* where there is none of the three the request is answered with a failure
\* at once, and neither the index nor a file changes.
C34_TargetRootResolution ==
    [][\A r \in Req : ApplyBegins(r) =>
          LET root == PrescribedRoot(req'[r].body[1], domainMappings, projectPath)
          IN  /\ req'[r].targetPath = root
              /\ root = <<>> =>
                    /\ req'[r].pc = "done"
                    /\ ~req'[r].result[1].success
                    /\ cssFiles' = cssFiles
                    /\ disk' = disk]_vars

\* a change from the mapped domain h that names the target path /r/s has
\* been applied under the mapped root /r
C34_Witness ==
    \E r \in Req :
        /\ req[r].kind = "apply"
        /\ req[r].pc = "done"
        /\ req[r].body[1].domain = <<"h">>
        /\ req[r].body[1].targetPath = DirRS
        /\ req[r].targetPath = RootR
        /\ req[r].result[1].success

-----------------------------------------------------------------------------
(* The change queue with requests that all come to an end (specification   *)
(* SpecQueueFair): every fetch is answered, fails or is aborted, the body  *)
(* of a response is read or fails to be, and every delay runs out.         *)

WorkerStep ==
    \E i \in Workers :
        FetchResponds(i) \/ FetchFails(i) \/ BodyRead(i) \/ DelayOver(i)

SpecQueueFair == SpecQueue /\ WF_vars(WorkerStep)

\* C35 as stated: no queued change is stranded: with isProcessing false and
\* no call of processQueue under way the queue is empty; and every change
\* pushed on the queue is sent in the end and isProcessing is false again in
\* the end, also when sends fail and changes arrive during the worker's
\* awaits and delay.
C35_EveryChangeSent ==
    /\ []((~processor.isProcessing /\ processor.workers = <<>>) =>
              processor.changeQueue = <<>>)
    /\ \A n \in 1..MaxChanges :
          (Len(processor.enqueued) >= n) ~> (Len(processor.sent) >= n)
    /\ processor.isProcessing ~> ~processor.isProcessing

\* C35, amended: with isProcessing false and no call of processQueue under
\* way the queue is empty; every change pushed on the queue is in the end
\* taken off it and handed to sendChangeToServer, and its request is issued
\* unless its data holds no string selector; and isProcessing is false again
\* in the end, also when sends fail and changes arrive during the worker's
\* awaits and delay.
C35_NoChangeStranded ==
    /\ []((~processor.isProcessing /\ processor.workers = <<>>) =>
              processor.changeQueue = <<>>)
    /\ \A n \in 1..MaxChanges :
          (Len(processor.enqueued) >= n) ~>
              (/\ Len(processor.shifted) >= n
               /\ Len(processor.sent) >=
                      Len(Sendable(SubSeq(processor.enqueued, 1, n))))
    /\ processor.isProcessing ~> ~processor.isProcessing

\* the worker is idle again after it sent two or more changes and took one
\* without selector off the queue, all those that arrived
C35_Witness ==
    /\ ~processor.isProcessing
    /\ processor.workers = <<>>
    /\ Len(processor.sent) >= 2
    /\ processor.shifted = processor.enqueued
    /\ Len(processor.sent) < Len(processor.shifted)

-----------------------------------------------------------------------------
(* One change applied again and again (specification SpecTwice): the tree  *)
(* of SpecLoad, no failing file operation, one request after the other.    *)

\* .n or d.n on an element of class n, color green added or red -> green,
\* under /r, under /r/s, or under /r/e (which holds no stylesheet)
TwiceBodies ==
    {enhanceChangeData(sel, << <<"n">> >>, << <<<<"c">>, ch>> >>, <<>>, tp) :
        sel \in {<<".","n">>, <<"d",".","n">>},
        ch \in {ValueChange(<<"g">>), FromTo(<<"r">>, <<"g">>)},
        tp \in {RootR, DirRS, DirRE}}

InitTwice ==
    /\ disk = LoadTree
    /\ cssFiles = <<>>
    /\ projectPath = <<>>
    /\ domainMappings = <<>>
    /\ req = [r \in Req |-> IdleRequest]
    /\ faults = 0
    /\ received = 0
    /\ call = None
    /\ ret = None
    /\ processor = IdleProcessor("first")

\* a change is sent for the first time
ApplyFirst(r, body) == received = 0 /\ ReceiveApply(r, body)

\* the change that handler r answered is sent once more
ApplyAgain(r) ==
    /\ AllFree
    /\ req[r].pc = "done"
    /\ ReceiveApply(r, req[r].body[1])

NextTwice ==
    \E r \in Req :
        \/ \E body \in TwiceBodies : ApplyFirst(r, body)
        \/ ApplyAgain(r)
        \/ StatOk(r)
        \/ ScanReaddir(r)
        \/ ReadFileStat(r)
        \/ ReadFileRead(r)
        \/ ScanLoadOk(r)
        \/ MainWriteOpen(r)
        \/ MainWriteOk(r)
        \/ MainLoadOk(r)
        \/ WriteOpen(r)
        \/ WriteOk(r)
        \/ ReloadOk(r)

SpecTwice == InitTwice /\ [][NextTwice]_vars

-----------------------------------------------------------------------------
(* Properties of a repeated change (specification SpecTwice)               *)

\* how often the text sub occurs in s
Occurrences(s, sub) ==
    Cardinality({i \in 0..(Len(s) - Len(sub)) : SubSeq(s, i + 1, i + Len(sub)) = sub})

\* how the rule block that createNewRule appends for the change begins
CreatedBlockHead(body) ==
    <<"\n", "\n">> \o body.selectorVariations[1][1].selector \o <<" ", "{">>

\* C36: a change applied twice or more in a row never leaves two rule blocks
\* for the created selector in a file: the rule that the first application
\* created, in a stylesheet that was there or in a new main.css behind its
\* header comment, is matched and updated by the next application.
C36_SecondApplyUpdates ==
    \A r \in Req : req[r].kind = "apply" =>
        \A f \in DOMAIN disk :
            Occurrences(disk[f], CreatedBlockHead(req[r].body[1])) <= 1

-----------------------------------------------------------------------------
(* Properties of the agent (specification Spec), continued                 *)

\* C37: a file that a change writes lies in the directory tree of the
\* resolved target root, not merely under a path that begins with the same
\* characters; and a change received while the index holds no file of that
\* tree, whatever it holds from a sibling directory, has the tree scanned
\* before anything else is done.
C37_WritesStayInRootTree ==
    /\ [](\A r \in Req :
             (req[r].kind = "apply"
                 /\ req[r].pc \in {"mkwrite", "mkwriting", "mkread", "write", "writing", "read"}) =>
                 Below(req[r].file, PathResolve(req[r].targetPath)))
    /\ [][\A r \in Req :
             (/\ ApplyBegins(r)
              /\ req'[r].targetPath # <<>>
              /\ \A i \in 1..Len(cssFiles) :
                    ~Below(cssFiles[i].path, PathResolve(req'[r].targetPath))) =>
                 req'[r].pc = "load"]_vars

-----------------------------------------------------------------------------
(* Properties of loading (specification SpecLoad), continued               *)

\* C38: a configuration that fails, its path missing or not a directory,
\* leaves the root and the domain mappings as it found them, which is as the
\* last successful configuration set them.
C38_FailedConfigureKeepsConfiguration ==
    \A r \in Req :
        (/\ req[r].kind = "config"
         /\ req[r].pc = "done"
         /\ ~req[r].result[1].success) =>
            <<projectPath, domainMappings>> = req[r].found

-----------------------------------------------------------------------------
(* Stylesheets edited by another program between two changes               *)
(* (specification SpecExternal): the tree of SpecLoad, no failing file     *)
(* operation, one request after the other.                                 *)

\* what the other program appends to a stylesheet: "\n.z{m:1}"
ExternalText == <<"\n", ".", "z", "{", "m", ":", "1", "}">>

\* .a: color red -> green, and .n: color green added, under /r and under /r/s
ExternalBodies ==
    {enhanceChangeData(<<".","a">>, << <<"a">> >>,
                       << <<<<"c">>, FromTo(<<"r">>, <<"g">>)>> >>, <<>>, tp) :
        tp \in {RootR, DirRS}}
    \cup {enhanceChangeData(<<".","n">>, << <<"n">> >>,
                            << <<<<"c">>, ValueChange(<<"g">>)>> >>, <<>>, tp) :
        tp \in {RootR, DirRS}}

\* another program appends a rule to the stylesheet f, between two calls
ExternalEdit(f) ==
    /\ AllFree
    /\ f \in DOMAIN disk
    /\ ~Includes(disk[f], ExternalText)
    /\ disk' = [disk EXCEPT ![f] = @ \o ExternalText]
    /\ UNCHANGED <<processor, cssFiles, projectPath, domainMappings, req, faults,
                   received, call, ret>>

NextExternal ==
    \/ \E r \in Req :
          \/ \E body \in ExternalBodies : ApplyCall(r, body)
          \/ StatOk(r)
          \/ ScanReaddir(r)
          \/ ReadFileStat(r)
          \/ ReadFileRead(r)
          \/ ScanLoadOk(r)
          \/ WriteOpen(r)
          \/ WriteOk(r)
          \/ ReloadOk(r)
    \/ \E f \in {FileRA, FileRSB} : ExternalEdit(f)

SpecExternal == InitLoad /\ [][NextExternal]_vars

\* C39: a change never discards what another program wrote to a stylesheet
\* after the stylesheet was indexed: when the write of a change begins on a
\* file that holds the text the other program appended, the content the
\* change writes holds that text too.
C39_ExternalEditsKept ==
    [][\A r \in Req :
          (/\ req[r].pc = "write"
           /\ req'[r].pc = "writing"
           /\ req[r].file \in DOMAIN disk
           /\ Includes(disk[req[r].file], ExternalText)) =>
              Includes(req[r].content, ExternalText)]_vars

-----------------------------------------------------------------------------
(* Properties of findBestMatch (specification SpecMatch), continued        *)

\* the selector names the class c as a whole class: "." and the name, with
\* no further character of a name behind it
NamesClass(selector, c) ==
    \E i \in 0..(Len(selector) - Len(c) - 1) :
        /\ SubSeq(selector, i + 1, i + 1 + Len(c)) = <<".">> \o c
        /\ i + 1 + Len(c) = Len(selector)
           \/ selector[i + 2 + Len(c)] \notin TagNameChars

\* C40: a rule is returned only if its selector equals the selector of a
\* variation or names, as a whole class, a class of classList; a rule whose
\* selector only holds longer class names that begin with the classes is
\* not returned.
C40_MatchNamesWholeClass ==
    (ret # None /\ ret[1] # None) =>
        LET selector == ret[1][1].rule.selector
            variations == call[1].selectorVariations
            classList == call[1].classList
        IN  \/ \E i \in 1..Len(variations) : variations[i].selector = selector
            \/ \E i \in 1..Len(classList) : NamesClass(selector, classList[i])

=============================================================================
